---- MODULE Spec2Model ----
(***************************************************************************)
(* Elefante: cognitive retrieval and curation core.                        *)
(*                                                                         *)
(* The module holds one state machine per subsystem of the repository:     *)
(*   - CognitiveRetriever.score_candidate / _build_explanation             *)
(*     (src/src/core/retrieval.py)                          SpecScore      *)
(*   - the write coordinator's add_memory                   SpecIngest     *)
(*   - GraphStore.create_or_get_entity / delete_entity                     *)
(*     (src/src/core/graph_store.py)           SpecGraphSeq, SpecGraphConc *)
(*   - MemoryHealthAnalyzer (src/src/utils/curation.py)                    *)
(*                                             SpecHealth, SpecConflict    *)
(*                                                                         *)
(* Numbers: the code scores in floating point.  Scores are modelled in     *)
(* thousandths (0..1000), composite weights in hundredths, and a weighted  *)
(* contribution score*weight therefore in units of 10^-5.  Ratios whose    *)
(* exact value decides a comparison (the Jaccard overlap against the       *)
(* conflict threshold) are kept as fractions and compared by cross         *)
(* multiplication.                                                         *)
(***************************************************************************)
EXTENDS Integers, Sequences, FiniteSets, TLC

VARIABLES
    \* ---- retrieval: one call of CognitiveRetriever.score_candidate
    candidate,              \* the MemoryCandidate being scored
    query,                  \* the QueryAnalysis
    recent_memory_ids,      \* list of recently returned memory ids
    co_activation_matrix,   \* self.co_activation_matrix
    explanation,            \* the RetrievalExplanation returned
    scored,                 \* TRUE once score_candidate has returned
    \* ---- write coordinator
    memories,               \* semantic store rows, in insertion order
    add_result,             \* result of the last add_memory call
    \* ---- graph store
    entities,               \* rows of the Entity node table
    calls,                  \* per task: the coroutine's position and locals
    next_uuid,              \* source of fresh Entity ids (uuid4)
    returned,               \* (name, type, id) handed back by completed calls
    conn,                   \* self._conn is set
    lock,                   \* self._lock: created, and the task holding it
    \* ---- health analyzer
    health_input,           \* keyword arguments of the last compute_health
    health_report,          \* HealthReport it returned
    health_prev,            \* input and report of the call before it
    stale_days,             \* self.stale_days
    corpus,                 \* the memories list given to analyze_all
    conflict_threshold,     \* self.conflict_threshold, as a fraction
    health_map,             \* {memory_id: HealthReport} returned by analyze_all
    conflicts,              \* list of ConflictReport returned by analyze_all
    pair_reports,           \* detect_potential_conflict(a, b) and (b, a)
    analyzed,               \* which analyzer operation has run
    \* ---- score normalizer: one call of ScoreNormalizer.adaptive_weights
    aw_query,               \* query, a string (sequence of characters)
    aw_has_session,         \* has_session
    aw_mode,                \* mode
    aw_weights,             \* the dict of source weights returned
    \* ---- proactive surfacer
    surfacer,               \* the three configured confidences
    pro_memories,           \* memories given to get_proactive_surfaces
    current_context,        \* current_context, a string
    conversation_domain,    \* conversation_domain
    recent_concepts,        \* recent_concepts
    suggestions,            \* the suggestions the scan collected
    surfaces,               \* the list get_proactive_surfaces returned
    temporal_call,          \* arguments and result of check_temporal_trigger
    surfaced,               \* which surfacer operation has run
    \* ---- canonicalization: one call applied to a list and to its result
    canon_fn,               \* canonicalize_concepts or canonicalize_surfaces_when
    canon_input,            \* the list of labels given
    canon_max,              \* max_concepts / max_surfaces
    canon_once,             \* the list returned
    canon_twice,            \* what the same call returns for that list
    \* ---- constellation assembly
    candidates,             \* the candidate list given to build_constellation
    contradictions,         \* {memory_id: contradicting ids}
    supports,               \* {memory_id: supporting ids}
    constellation,          \* the MemoryConstellation returned
    built,                  \* TRUE once build_constellation has returned
    \* ---- result deduplication
    dd_candidates,          \* the candidates given to deduplicate
    dd_threshold,           \* ResultDeduplicator.threshold, in hundredths
    dd_groups,              \* the groups _find_duplicate_groups returned
    dd_result,              \* the list deduplicate returned
    dd_done,                \* TRUE once deduplicate has returned
    \* ---- classification
    cl_content,             \* the content given to classify_memory_full, as words
    cl_result,              \* (layer, sublayer, importance) returned
    \* ---- concept extraction at ingestion
    cu_content,             \* the content being curated, a string
    cu_concepts,            \* the list extract_concepts returned
    cu_surfaces,            \* the list infer_surfaces_when returned
    cu_stage,               \* content, concepts or surfaces: how far the curation got
    \* ---- canonical concept form: two label lists
    cf_first,               \* the first list of labels
    cf_second,              \* a second list of labels
    cf_max,                 \* max_concepts
    cf_out_first,           \* canonicalize_concepts of the first list
    cf_out_second,          \* canonicalize_concepts of the second list
    cf_done,                \* TRUE once both calls have returned
    \* ---- lock files of the restart utility
    lock_dir_exists,        \* whether ELEFANTE_HOME/locks exists
    lock_files,             \* the bodies of the *.lock files found, file by file
    unlinked,               \* the files clean_locks unlinked
    cleaned,                \* TRUE once clean_locks has returned
    \* ---- graph store connection and database path
    db_path,                \* what is at database_path on disk
    db_conn,                \* TRUE when self._conn is set
    db_lock,                \* TRUE when self._lock is set
    db_schema,              \* self._schema_initialized
    db_before,              \* the path as the last call found it
    db_checked,             \* the path as the last call's check left it
    db_outcome,             \* how the last call ended
    db_calls,               \* number of calls made
    \* ---- relationships of the graph store
    rel_entities,           \* ids of the rows of the Entity table
    rel_edges,              \* the edges held by the relationship tables
    rel_request,            \* the relationship passed to the last call
    rel_result,             \* how the last call ended
    rel_calls,              \* number of calls made
    \* ---- temporal consolidation
    ar_vector,              \* archived flag of each row of the semantic store
    ar_graph,               \* archived flag of each Entity row of the graph store
    ar_before,              \* both stores as the last call found them
    ar_results,             \* what archive_memory returned, memory by memory, in the last call
    ar_stats,               \* the statistics returned by the last consolidation
    ar_calls                \* number of calls made

scoreVars    == <<candidate, query, recent_memory_ids, co_activation_matrix,
                  explanation, scored>>
ingestVars   == <<memories, add_result>>
graphVars    == <<entities, calls, next_uuid, returned, conn, lock>>
healthVars   == <<health_input, health_report, health_prev, stale_days>>
conflictVars == <<corpus, conflict_threshold, health_map, conflicts, pair_reports,
                  analyzed>>
coreVars     == <<scoreVars, ingestVars, graphVars, healthVars, conflictVars>>
weightVars   == <<aw_query, aw_has_session, aw_mode, aw_weights>>
proactiveVars == <<surfacer, pro_memories, current_context, conversation_domain,
                   recent_concepts, suggestions, surfaces, temporal_call,
                   surfaced>>
canonVars    == <<canon_fn, canon_input, canon_max, canon_once, canon_twice>>
constellationVars == <<candidates, contradictions, supports, constellation,
                       built>>
laterVars    == <<weightVars, proactiveVars, canonVars, constellationVars>>
dedupVars    == <<dd_candidates, dd_threshold, dd_groups, dd_result, dd_done>>
classifyVars == <<cl_content, cl_result>>
curateVars   == <<cu_content, cu_concepts, cu_surfaces, cu_stage>>
formVars     == <<cf_first, cf_second, cf_max, cf_out_first, cf_out_second,
                  cf_done>>
lockVars     == <<lock_dir_exists, lock_files, unlinked, cleaned>>
pathVars     == <<db_path, db_conn, db_lock, db_schema, db_before,
                  db_checked, db_outcome, db_calls>>
relVars      == <<rel_entities, rel_edges, rel_request, rel_result,
                  rel_calls>>
archiveVars  == <<ar_vector, ar_graph, ar_before, ar_results, ar_stats,
                  ar_calls>>
finalVars    == <<dedupVars, classifyVars, curateVars, formVars, lockVars,
                  pathVars, relVars, archiveVars>>
\* what an operation of one subsystem leaves alone
dedupFrame   == <<coreVars, laterVars, classifyVars, curateVars, formVars,
                  lockVars, pathVars, relVars, archiveVars>>
classifyFrame == <<coreVars, laterVars, dedupVars, curateVars, formVars,
                   lockVars, pathVars, relVars, archiveVars>>
curateFrame  == <<coreVars, laterVars, dedupVars, classifyVars, formVars,
                  lockVars, pathVars, relVars, archiveVars>>
formFrame    == <<coreVars, laterVars, dedupVars, classifyVars, curateVars,
                  lockVars, pathVars, relVars, archiveVars>>
lockFrame    == <<coreVars, laterVars, dedupVars, classifyVars, curateVars,
                  formVars, pathVars, relVars, archiveVars>>
pathFrame    == <<coreVars, laterVars, dedupVars, classifyVars, curateVars,
                  formVars, lockVars, relVars, archiveVars>>
relFrame     == <<coreVars, laterVars, dedupVars, classifyVars, curateVars,
                  formVars, lockVars, pathVars, archiveVars>>
archiveFrame == <<coreVars, laterVars, dedupVars, classifyVars, curateVars,
                  formVars, lockVars, pathVars, relVars>>
vars == <<coreVars, laterVars, finalVars>>

\* Python's None where the value is a string or an id.
None == "None"
\* Python's None where the value is a number of days.
NoDate == -1000

(***************************************************************************)
(* Bounds of the model.                                                    *)
(***************************************************************************)
\* size of the concept vocabulary
MaxConcepts == 4
\* number of memories in a corpus handed to analyze_all
MaxCorpus == 2
\* number of stored memories in the semantic store
MaxMemories == 3
\* number of Entity objects ever constructed (fresh uuids)
MaxEntities == 3
\* number of concurrently running graph-store coroutines
MaxTasks == 2

ConceptPool == <<"python", "testing", "api", "db", "config", "search">>
Concepts == {ConceptPool[i] : i \in 1..MaxConcepts}

\* Sum of f[x] over the elements of a sequence of keys.
RECURSIVE SeqSum(_, _)
SeqSum(f, s) ==
    IF s = <<>> THEN 0 ELSE f[Head(s)] + SeqSum(f, Tail(s))

Min(a, b) == IF a <= b THEN a ELSE b
Max(a, b) == IF a >= b THEN a ELSE b

(***************************************************************************)
(* CognitiveRetriever (src/src/core/retrieval.py)                          *)
(***************************************************************************)
\* WEIGHTS, in hundredths
W_vector == 30
W_concept == 20
W_domain == 15
W_coactivation == 15
W_authority == 10
W_temporal == 10

WEIGHTS == [vector |-> W_vector, concept |-> W_concept, domain |-> W_domain,
            coactivation |-> W_coactivation, authority |-> W_authority,
            temporal |-> W_temporal]

\* compute_concept_overlap: |Q & M| / |Q | M|, in thousandths; 0 when either
\* list is empty.  Concept lists are modelled by the sets set() makes of them.
compute_concept_overlap(query_concepts, memory_concepts) ==
    IF query_concepts = {} \/ memory_concepts = {} THEN 0
    ELSE LET intersection == Cardinality(query_concepts \cap memory_concepts)
             union == Cardinality(query_concepts \cup memory_concepts)
         IN IF union = 0 THEN 0 ELSE (1000 * intersection) \div union

IsProject(d) == d \in {"project:elefante", "project:other"}

\* compute_domain_match
compute_domain_match(query_domain, memory_domain) ==
    IF query_domain = None THEN 500
    ELSE IF query_domain = memory_domain THEN 1000
    ELSE IF IsProject(query_domain) /\ IsProject(memory_domain) THEN 300
    ELSE 0

\* Mutant: the normalisation divides the wrong way round.
compute_coactivation_inverted(matrix, memory_id, recent) ==
    IF recent = <<>> \/ memory_id \notin DOMAIN matrix THEN 0
    ELSE LET memory_coacts == matrix[memory_id]
             get == [rid \in {recent[i] : i \in 1..Len(recent)} |->
                       IF rid \in DOMAIN memory_coacts
                       THEN memory_coacts[rid] ELSE 0]
             total_coact == SeqSum(get, recent)
         IN IF total_coact = 0 THEN 0
            ELSE Min(1000, (1000 * 10) \div total_coact)

\* compute_coactivation: min(1, sum of counters over recent ids / 10)
compute_coactivation(matrix, memory_id, recent) ==
    IF recent = <<>> \/ memory_id \notin DOMAIN matrix THEN 0
    ELSE LET memory_coacts == matrix[memory_id]
             get == [rid \in {recent[i] : i \in 1..Len(recent)} |->
                       IF rid \in DOMAIN memory_coacts
                       THEN memory_coacts[rid] ELSE 0]
             total_coact == SeqSum(get, recent)
         IN Min(1000, (1000 * total_coact) \div 10)

\* math.exp(-0.05 * d), in thousandths, for the day counts -1, 0, 14, 90, 365
AccessDecay(d) ==
    CASE d = -1 -> 1051 [] d = 0 -> 1000 [] d = 14 -> 497 [] d = 90 -> 11
      [] OTHER -> 0
\* math.exp(-0.007 * d), in thousandths, for the same day counts
FreshnessDecay(d) ==
    CASE d = -1 -> 1007 [] d = 0 -> 1000 [] d = 14 -> 907 [] d = 90 -> 533
      [] OTHER -> 78

\* compute_temporal_score; a missing timestamp counts as 365 days
compute_temporal_score(last_accessed, created_at) ==
    LET days_since_access == IF last_accessed = NoDate THEN 365 ELSE last_accessed
        days_since_created == IF created_at = NoDate THEN 365 ELSE created_at
        access_score == AccessDecay(days_since_access)
        freshness_score == FreshnessDecay(days_since_created)
    IN (6 * access_score + 4 * freshness_score) \div 10

\* math.log(access_count + 1) / math.log(50), in thousandths, for the
\* access counts 0, 1, 10, 100
LogRatio(access_count) ==
    CASE access_count = 0 -> 0 [] access_count = 1 -> 177
      [] access_count = 10 -> 613 [] OTHER -> 1180

\* compute_authority
compute_authority(importance, access_count) ==
    LET importance_factor == importance * 100
        access_factor == Min(1000, LogRatio(access_count))
    IN (6 * importance_factor + 4 * access_factor) \div 10

\* score_candidate, lines 266-304: the scores written into the candidate
ScoredCandidate(c, q, recent, matrix) ==
    LET concept_score == compute_concept_overlap(q.concepts, c.concepts)
        domain_score == compute_domain_match(q.inferred_domain, c.domain)
        coactivation_score == compute_coactivation(matrix, c.id, recent)
        authority_score == compute_authority(c.importance, c.access_count)
        temporal_score == compute_temporal_score(c.last_accessed, c.created_at)
    IN [c EXCEPT
          !.concept_score = concept_score,
          !.domain_score = domain_score,
          !.coactivation_score = coactivation_score,
          !.authority_score = authority_score,
          !.composite_score =
              WEIGHTS.vector * c.vector_score +
              WEIGHTS.concept * concept_score +
              WEIGHTS.domain * domain_score +
              WEIGHTS.coactivation * coactivation_score +
              WEIGHTS.authority * authority_score +
              WEIGHTS.temporal * temporal_score]

Signal(name, score, weight, weighted, matched) ==
    [name |-> name, score |-> score, weight |-> weight,
     weighted |-> weighted, matched |-> matched]

\* _build_explanation, lines 352-401: the six signal entries, each weighted
\* value computed again as score * weight
Signals(c, matched_concepts, temporal_score) ==
    << Signal("vector_similarity", c.vector_score, WEIGHTS.vector,
              c.vector_score * WEIGHTS.vector, {}),
       Signal("concept_overlap", c.concept_score, WEIGHTS.concept,
              c.concept_score * WEIGHTS.concept, matched_concepts),
       Signal("domain_match", c.domain_score, WEIGHTS.domain,
              c.domain_score * WEIGHTS.domain, {}),
       Signal("coactivation", c.coactivation_score, WEIGHTS.coactivation,
              c.coactivation_score * WEIGHTS.coactivation, {}),
       Signal("authority", c.authority_score, WEIGHTS.authority,
              c.authority_score * WEIGHTS.authority, {}),
       Signal("temporal", temporal_score, WEIGHTS.temporal,
              temporal_score * WEIGHTS.temporal, {}) >>

\* Mutant: the explanation derives the temporal score again, with the default
\* of 0 days that it uses for its reason text, instead of taking the score
\* the composite was computed from.
build_explanation_rederived(c, q, temporal_score) ==
    [composite_score |-> c.composite_score,
     signals |-> Signals(c, q.concepts \cap c.concepts,
                    compute_temporal_score(
                        IF c.last_accessed = NoDate THEN 0 ELSE c.last_accessed,
                        c.created_at))]

\* Mutant: the explanation lists the query's concepts as matched.
build_explanation_query_concepts(c, q, temporal_score) ==
    [composite_score |-> c.composite_score,
     signals |-> Signals(c, q.concepts, temporal_score)]

\* _build_explanation: built from the scored candidate's fields and the
\* temporal score passed in by score_candidate
build_explanation(c, q, temporal_score) ==
    LET matched_concepts == q.concepts \cap c.concepts
    IN [composite_score |-> c.composite_score,
        signals |-> Signals(c, matched_concepts, temporal_score)]

NoExplanation == [composite_score |-> 0, signals |-> <<>>]

\* The inputs a call is made with.
VectorSamples == {0, 333, 1000}
QueryDomains == {None, "work", "project:elefante"}
MemoryDomains == {"work", "project:elefante", "project:other"}

NewCandidate(concepts, domain, importance, access_count, created_at, last_accessed, vector_score) ==
    [id |-> "m1", concepts |-> concepts, domain |-> domain,
     importance |-> importance, access_count |-> access_count,
     created_at |-> created_at, last_accessed |-> last_accessed,
     vector_score |-> vector_score, concept_score |-> 0, domain_score |-> 0,
     coactivation_score |-> 0, authority_score |-> 0, composite_score |-> 0]

EmptyMap == [x \in {} |-> 0]
\* (co_activation_matrix, recent_memory_ids) pairs
CoactSamples ==
    { <<EmptyMap, <<"m2">> >>,
      <<[m1 |-> [m2 |-> 4]], <<>> >>,
      <<[m1 |-> [m2 |-> 4]], <<"m2", "m3">> >>,
      <<[m1 |-> [m2 |-> 7, m3 |-> 6], m2 |-> [m1 |-> 7]], <<"m2", "m3">> >> }
\* (importance, access_count, created_at, last_accessed); a timestamp is the
\* day count (now - t).days that compute_temporal_score reads from it, which
\* is -1 for a timestamp up to a day ahead of utcnow()
UsageSamples ==
    { <<1, 0, NoDate, NoDate>>, <<5, 10, 90, 14>>, <<10, 100, 0, 0>>,
      <<10, 100, -1, -1>> }
\* number of vocabulary concepts a query may carry
MaxQueryConcepts == 2
QueryConcepts == {ConceptPool[i] : i \in 1..MaxQueryConcepts}

Tasks == 1..MaxTasks
IdleCall == [pc |-> "idle", op |-> None, name |-> None, type |-> None,
             id |-> 0, result |-> 0]

NoAddResult ==
    [classification |-> None, id |-> 0, content |-> <<>>, count_before |-> 0]

IngestIdle ==
    /\ memories = <<>>
    /\ add_result = NoAddResult

GraphIdle ==
    /\ entities = {}
    /\ calls = [t \in Tasks |-> IdleCall]
    /\ next_uuid = 1
    /\ returned = {}
    /\ conn = FALSE
    /\ lock = [created |-> FALSE, holder |-> 0]

NoHealthInput ==
    [superseded_by_id |-> None, conflicts_given |-> FALSE,
     potential_conflicts |-> <<>>, days_since_access |-> 0,
     connection_count |-> 0]
NoReport == [status |-> None, icon |-> "", reasons |-> <<>>]

HealthIdle ==
    /\ health_input = NoHealthInput
    /\ health_report = NoReport
    /\ health_prev = [input |-> NoHealthInput, report |-> NoReport]
    /\ stale_days = 90

\* detect_potential_conflict returned None
NoConflict ==
    [memory_a_id |-> 0, memory_b_id |-> 0, overlap |-> <<0, 1>>,
     shared_concepts |-> {}]
NoPair == [a |-> 0, b |-> 0, ab |-> NoConflict, ba |-> NoConflict]

ConflictIdle ==
    /\ corpus = <<>>
    /\ conflict_threshold = <<3, 5>>
    /\ health_map = <<>>
    /\ conflicts = <<>>
    /\ pair_reports = NoPair
    /\ analyzed = None

\* no adaptive_weights call made yet
NoWeights == [conversation |-> 0, semantic |-> 0, graph |-> 0]

WeightIdle ==
    /\ aw_query = <<>>
    /\ aw_has_session = FALSE
    /\ aw_mode = "hybrid"
    /\ aw_weights = NoWeights

\* Python's None where the value is a string modelled as a character sequence
NoneStr == <<None>>
\* a check_*_trigger call returned None
NoSuggestion == [memory_id |-> 0, trigger |-> None, confidence |-> 0]
\* ProactiveSurfacer.__init__ defaults, in thousandths
DefaultSurfacer ==
    [temporal_confidence |-> 700, domain_confidence |-> 600,
     concept_confidence |-> 500]
NoTemporalCall ==
    [surfaces_when |-> NoneStr, current_context |-> <<>>,
     result |-> NoSuggestion]

ProactiveIdle ==
    /\ surfacer = DefaultSurfacer
    /\ pro_memories = <<>>
    /\ current_context = <<>>
    /\ conversation_domain = None
    /\ recent_concepts = {}
    /\ suggestions = <<>>
    /\ surfaces = <<>>
    /\ temporal_call = NoTemporalCall
    /\ surfaced = None

CanonIdle ==
    /\ canon_fn = None
    /\ canon_input = <<>>
    /\ canon_max = 0
    /\ canon_once = <<>>
    /\ canon_twice = <<>>

\* MemoryConstellation.primary is None
NoPrimary == [id |-> 0, concept_score |-> 0, composite_score |-> 0,
              role |-> None]
\* MemoryConstellation(): the dataclass defaults
EmptyConstellation ==
    [primary |-> NoPrimary, supporting |-> <<>>, contradicting |-> <<>>,
     context |-> <<>>, synthesis |-> [text |-> "", parts |-> <<>>]]

ConstellationIdle ==
    /\ candidates = <<>>
    /\ contradictions = EmptyMap
    /\ supports = EmptyMap
    /\ constellation = EmptyConstellation
    /\ built = FALSE

LaterIdle == WeightIdle /\ ProactiveIdle /\ CanonIdle /\ ConstellationIdle

DedupIdle ==
    /\ dd_candidates = <<>>
    /\ dd_threshold = 95
    /\ dd_groups = <<>>
    /\ dd_result = <<>>
    /\ dd_done = FALSE

\* classify_memory_full has not returned
NoClassification == [layer |-> None, sublayer |-> None, importance |-> 0]

ClassifyIdle ==
    /\ cl_content = <<>>
    /\ cl_result = NoClassification

CurateIdle ==
    /\ cu_content = <<>>
    /\ cu_concepts = <<>>
    /\ cu_surfaces = <<>>
    /\ cu_stage = "content"

FormIdle ==
    /\ cf_first = <<>>
    /\ cf_second = <<>>
    /\ cf_max = 5
    /\ cf_out_first = <<>>
    /\ cf_out_second = <<>>
    /\ cf_done = FALSE

LockIdle ==
    /\ lock_dir_exists = FALSE
    /\ lock_files = <<>>
    /\ unlinked = {}
    /\ cleaned = FALSE

PathIdle ==
    /\ db_path = [kind |-> "absent", size |-> 0]
    /\ db_conn = FALSE
    /\ db_lock = FALSE
    /\ db_schema = FALSE
    /\ db_before = [kind |-> "absent", size |-> 0]
    /\ db_checked = [kind |-> "absent", size |-> 0]
    /\ db_outcome = "none"
    /\ db_calls = 0

RelIdle ==
    /\ rel_entities = {}
    /\ rel_edges = {}
    /\ rel_request = <<>>
    /\ rel_result = "none"
    /\ rel_calls = 0

ArchiveIdle ==
    /\ ar_vector = <<>>
    /\ ar_graph = <<>>
    /\ ar_before = <<>>
    /\ ar_results = <<>>
    /\ ar_stats = <<>>
    /\ ar_calls = 0

FinalIdle ==
    DedupIdle /\ ClassifyIdle /\ CurateIdle /\ FormIdle /\ LockIdle /\
    PathIdle /\ RelIdle /\ ArchiveIdle
\* the other subsystems at rest
DedupOthersIdle ==
    ClassifyIdle /\ CurateIdle /\ FormIdle /\ LockIdle /\ PathIdle /\
    RelIdle /\ ArchiveIdle
ClassifyOthersIdle ==
    DedupIdle /\ CurateIdle /\ FormIdle /\ LockIdle /\ PathIdle /\ RelIdle /\
    ArchiveIdle
CurateOthersIdle ==
    DedupIdle /\ ClassifyIdle /\ FormIdle /\ LockIdle /\ PathIdle /\ RelIdle /\
    ArchiveIdle
FormOthersIdle ==
    DedupIdle /\ ClassifyIdle /\ CurateIdle /\ LockIdle /\ PathIdle /\
    RelIdle /\ ArchiveIdle
LockOthersIdle ==
    DedupIdle /\ ClassifyIdle /\ CurateIdle /\ FormIdle /\ PathIdle /\
    RelIdle /\ ArchiveIdle
PathOthersIdle ==
    DedupIdle /\ ClassifyIdle /\ CurateIdle /\ FormIdle /\ LockIdle /\
    RelIdle /\ ArchiveIdle
RelOthersIdle ==
    DedupIdle /\ ClassifyIdle /\ CurateIdle /\ FormIdle /\ LockIdle /\
    PathIdle /\ ArchiveIdle
ArchiveOthersIdle ==
    DedupIdle /\ ClassifyIdle /\ CurateIdle /\ FormIdle /\ LockIdle /\
    PathIdle /\ RelIdle

ScoreIdle ==
    /\ candidate = NewCandidate({}, "work", 1, 0, NoDate, NoDate, 0)
    /\ query = [concepts |-> {}, inferred_domain |-> None]
    /\ recent_memory_ids = <<>>
    /\ co_activation_matrix = EmptyMap
    /\ explanation = NoExplanation
    /\ scored = FALSE

CoreIdle ==
    ScoreIdle /\ IngestIdle /\ GraphIdle /\ HealthIdle /\ ConflictIdle

ScoreInit ==
    /\ \E cs \in SUBSET Concepts, d \in MemoryDomains, u \in UsageSamples,
          v \in VectorSamples :
          candidate = NewCandidate(cs, d, u[1], u[2], u[3], u[4], v)
    /\ \E qs \in SUBSET QueryConcepts, qd \in QueryDomains :
          query = [concepts |-> qs, inferred_domain |-> qd]
    /\ \E p \in CoactSamples :
          /\ co_activation_matrix = p[1]
          /\ recent_memory_ids = p[2]
    /\ explanation = NoExplanation
    /\ scored = FALSE

\* score_candidate(candidate, query, recent_memory_ids, include_explanation)
score_candidate ==
    /\ ~scored
    /\ \E include_explanation \in BOOLEAN :
          LET c == ScoredCandidate(candidate, query, recent_memory_ids,
                                   co_activation_matrix)
              temporal_score == compute_temporal_score(candidate.last_accessed,
                                                       candidate.created_at)
          IN /\ candidate' = c
             /\ explanation' = IF include_explanation
                                THEN build_explanation(c, query, temporal_score)
                                ELSE NoExplanation
    /\ scored' = TRUE
    /\ UNCHANGED <<query, recent_memory_ids, co_activation_matrix>>
    /\ UNCHANGED <<ingestVars, graphVars, healthVars, conflictVars,
                   laterVars, finalVars>>

ScoreNext == score_candidate
InitScore ==
    ScoreInit /\ IngestIdle /\ GraphIdle /\ HealthIdle /\ ConflictIdle /\
    LaterIdle /\ FinalIdle
SpecScore == InitScore /\ [][ScoreNext]_vars

(***************************************************************************)
(* Claims about the retrieval explanation                                  *)
(***************************************************************************)
SignalNames == {"vector_similarity", "concept_overlap", "domain_match",
                "coactivation", "authority", "temporal"}

RECURSIVE SumWeighted(_)
SumWeighted(signals) ==
    IF signals = <<>> THEN 0
    ELSE Head(signals).weighted + SumWeighted(Tail(signals))

Abs(x) == IF x < 0 THEN -x ELSE x

\* 0.001 in the unit of a weighted contribution (10^-5)
Tolerance == 100

HasExplanation == scored /\ explanation # NoExplanation

ConceptSignal(e) ==
    CHOOSE s \in {e.signals[i] : i \in 1..Len(e.signals)} :
        s.name = "concept_overlap"

\* C1 (P1, explanation completeness): an explanation returned by
\* score_candidate has exactly six signals, one for each of the six signal
\* names, the sum of their weighted values is within 0.001 of the
\* explanation's composite score, and that score is the candidate's.
C1_ExplanationComplete ==
    HasExplanation =>
        /\ Len(explanation.signals) = 6
        /\ \A n \in SignalNames :
              Cardinality({i \in 1..Len(explanation.signals) :
                             explanation.signals[i].name = n}) = 1
        /\ Abs(SumWeighted(explanation.signals) - explanation.composite_score)
              <= Tolerance
        /\ explanation.composite_score = candidate.composite_score

\* a scored candidate in which every signal contributes to the composite
C1_Witness ==
    /\ HasExplanation
    /\ \A i \in 1..Len(explanation.signals) :
          explanation.signals[i].weighted > 0
    /\ candidate.last_accessed = NoDate

\* C2 (P2, explanation accuracy): a concept_overlap signal with score > 0
\* lists at least one matched concept, every matched concept is a concept of
\* the query and of the memory, and with score 0 nothing is listed.
C2_ExplanationAccurate ==
    HasExplanation =>
        LET sig == ConceptSignal(explanation)
        IN /\ sig.score > 0 => sig.matched # {}
           /\ sig.matched \subseteq (query.concepts \cap candidate.concepts)
           /\ sig.score = 0 => sig.matched = {}

\* a query and a memory that share one concept and each have another
C2_Witness ==
    /\ HasExplanation
    /\ ConceptSignal(explanation).score > 0
    /\ ConceptSignal(explanation).matched # query.concepts
    /\ ConceptSignal(explanation).matched # candidate.concepts

CandidateScores == {"vector_score", "concept_score", "domain_score",
                    "coactivation_score", "authority_score"}

\* C16 (score range): every signal score and the composite score that
\* score_candidate exposes lies in [0,1] for every candidate it is given, and
\* the six composite weights sum to exactly 1.0.
C16_ScoreRange ==
    /\ W_vector + W_concept + W_domain + W_coactivation + W_authority
          + W_temporal = 100
    /\ scored =>
          /\ \A f \in CandidateScores :
                candidate[f] >= 0 /\ candidate[f] <= 1000
          /\ candidate.composite_score >= 0
          /\ candidate.composite_score <= 100 * 1000
          /\ \A i \in 1..Len(explanation.signals) :
                /\ explanation.signals[i].score >= 0
                /\ explanation.signals[i].score <= 1000

(***************************************************************************)
(* MemoryHealthAnalyzer.compute_health (src/src/utils/curation.py)         *)
(***************************************************************************)
HealthStatus == {"healthy", "stale", "at_risk", "orphan"}

\* Python truth value of an optional id: None and "" are false
Truthy(s) == s # None /\ s # ""

HealthReport(status, reason, n) ==
    [status |-> status, icon |-> "", reasons |-> << <<reason, n>> >>]

\* Mutant: a memory accessed exactly stale_days ago already counts as stale.
compute_health_inclusive(in, stale) ==
    LET potential_conflicts ==
            IF in.conflicts_given THEN in.potential_conflicts ELSE <<>>
    IN IF Truthy(in.superseded_by_id)
       THEN HealthReport("at_risk", "Superseded by newer memory", 0)
       ELSE IF potential_conflicts # <<>>
       THEN HealthReport("at_risk", "Has unresolved conflict(s)",
                         Len(potential_conflicts))
       ELSE IF in.days_since_access >= stale
       THEN HealthReport("stale", "Not accessed in days", in.days_since_access)
       ELSE IF in.connection_count = 0
       THEN HealthReport("orphan", "No connections to other memories", 0)
       ELSE HealthReport("healthy", "Active and connected", 0)

\* compute_health(superseded_by_id, potential_conflicts, days_since_access,
\* connection_count) of an analyzer whose stale_days is `stale`; the number in
\* a reason is the one the code formats into its text
compute_health(in, stale) ==
    LET potential_conflicts ==
            IF in.conflicts_given THEN in.potential_conflicts ELSE <<>>
    IN IF Truthy(in.superseded_by_id)
       THEN HealthReport("at_risk", "Superseded by newer memory", 0)
       ELSE IF potential_conflicts # <<>>
       THEN HealthReport("at_risk", "Has unresolved conflict(s)",
                         Len(potential_conflicts))
       ELSE IF in.days_since_access > stale
       THEN HealthReport("stale", "Not accessed in days", in.days_since_access)
       ELSE IF in.connection_count = 0
       THEN HealthReport("orphan", "No connections to other memories", 0)
       ELSE HealthReport("healthy", "Active and connected", 0)

\* The keyword arguments a call is made with.
SupersededSamples == {None, "", "m9"}
ConflictListSamples == { <<>>, <<"m2", "m3">> }
StaleDaysSamples == {30, 90}
DaysSinceAccessSamples == {30, 31, 90, 91}
ConnectionSamples == {0, 2}

HealthInputs ==
    { [superseded_by_id |-> s, conflicts_given |-> g,
       potential_conflicts |-> pc, days_since_access |-> d,
       connection_count |-> n] :
        s \in SupersededSamples, g \in BOOLEAN, pc \in ConflictListSamples,
        d \in DaysSinceAccessSamples, n \in ConnectionSamples }

HealthInit ==
    /\ health_input = NoHealthInput
    /\ health_report = NoReport
    /\ health_prev = [input |-> NoHealthInput, report |-> NoReport]
    /\ stale_days \in StaleDaysSamples

\* one call analyzer.compute_health(**in)
ComputeHealth ==
    /\ \E in \in HealthInputs :
          /\ in.conflicts_given \/ in.potential_conflicts = <<>>
          /\ health_input' = in
          /\ health_report' = compute_health(in, stale_days)
    /\ health_prev' = [input |-> health_input, report |-> health_report]
    /\ UNCHANGED stale_days
    /\ UNCHANGED <<scoreVars, ingestVars, graphVars, conflictVars, laterVars,
                   finalVars>>

HealthNext == ComputeHealth
InitHealth ==
    ScoreIdle /\ IngestIdle /\ GraphIdle /\ HealthInit /\ ConflictIdle /\
    LaterIdle /\ FinalIdle
SpecHealth == InitHealth /\ [][HealthNext]_vars

\* The status the priority rules name for an input.
AtRisk(in) ==
    \/ Truthy(in.superseded_by_id)
    \/ (in.conflicts_given /\ Len(in.potential_conflicts) > 0)
IsStale(in) == in.days_since_access > stale_days
IsOrphan(in) == in.connection_count = 0

ConflictReport(a_id, b_id, overlap, shared) ==
    [memory_a_id |-> a_id, memory_b_id |-> b_id, overlap |-> overlap,
     shared_concepts |-> shared]

\* list(intersection)[:3]: the iteration order of a set of strings is not
\* fixed, so any three members may be the ones kept
FirstThree(S) == {x \in SUBSET S : Cardinality(x) = Min(3, Cardinality(S))}

\* Mutant: the overlap is measured against the first memory's concepts
\* instead of the union.
detect_potential_conflict_containment(a, b, threshold) ==
    IF a.domain # b.domain THEN {NoConflict}
    ELSE IF a.concepts = {} \/ b.concepts = {} THEN {NoConflict}
    ELSE LET intersection == a.concepts \cap b.concepts
             overlap == <<Cardinality(intersection), Cardinality(a.concepts)>>
         IN IF overlap[1] * threshold[2] < threshold[1] * overlap[2]
            THEN {NoConflict}
            ELSE {ConflictReport(a.id, b.id, overlap, shared) :
                    shared \in FirstThree(intersection)}

\* Mutant: the threshold comparison is inverted.
detect_potential_conflict_inverted(a, b, threshold) ==
    IF a.domain # b.domain THEN {NoConflict}
    ELSE IF a.concepts = {} \/ b.concepts = {} THEN {NoConflict}
    ELSE LET intersection == a.concepts \cap b.concepts
             union == a.concepts \cup b.concepts
             overlap == <<Cardinality(intersection), Cardinality(union)>>
         IN IF overlap[1] * threshold[2] > threshold[1] * overlap[2]
            THEN {NoConflict}
            ELSE {ConflictReport(a.id, b.id, overlap, shared) :
                    shared \in FirstThree(intersection)}

\* Mutant: a pair whose overlap equals the threshold is not reported.
detect_potential_conflict_strict(a, b, threshold) ==
    IF a.domain # b.domain THEN {NoConflict}
    ELSE IF a.concepts = {} \/ b.concepts = {} THEN {NoConflict}
    ELSE LET intersection == a.concepts \cap b.concepts
             union == a.concepts \cup b.concepts
             overlap == <<Cardinality(intersection), Cardinality(union)>>
         IN IF overlap[1] * threshold[2] <= threshold[1] * overlap[2]
            THEN {NoConflict}
            ELSE {ConflictReport(a.id, b.id, overlap, shared) :
                    shared \in FirstThree(intersection)}

\* detect_potential_conflict(a.id, a.concepts, a.domain, b.id, b.concepts,
\* b.domain): the set of values the call can return
detect_potential_conflict(a, b, threshold) ==
    IF a.domain # b.domain THEN {NoConflict}
    ELSE IF a.concepts = {} \/ b.concepts = {} THEN {NoConflict}
    ELSE LET intersection == a.concepts \cap b.concepts
             union == a.concepts \cup b.concepts
             overlap == <<Cardinality(intersection), Cardinality(union)>>
         IN IF overlap[1] * threshold[2] < threshold[1] * overlap[2]
            THEN {NoConflict}
            ELSE {ConflictReport(a.id, b.id, overlap, shared) :
                    shared \in FirstThree(intersection)}

\* for i in range(n): for j in range(i + 1, n), in loop order from (i, j)
RECURSIVE PairLoop(_, _, _)
PairLoop(i, j, n) ==
    IF i > n THEN <<>>
    ELSE IF j > n THEN PairLoop(i + 1, i + 2, n)
    ELSE << <<i, j>> >> \o PairLoop(i, j + 1, n)

\* analyze_all, second pass: the lists of conflicts the loop can build
RECURSIVE DetectAll(_, _, _)
DetectAll(mems, pairs, threshold) ==
    IF pairs = <<>> THEN { <<>> }
    ELSE LET p == Head(pairs)
             outs == detect_potential_conflict(mems[p[1]], mems[p[2]], threshold)
             rest == DetectAll(mems, Tail(pairs), threshold)
         IN { IF o = NoConflict THEN r ELSE <<o>> \o r : o \in outs, r \in rest }

\* analyze_all, first pass; the memory dicts carry none of the optional
\* health keys, so every mem.get(...) takes its default
HealthMap(mems, stale) ==
    [i \in 1..Len(mems) |-> compute_health(NoHealthInput, stale)]

\* analyze_all(memories): the conflict lists it can return
analyze_all(mems, threshold) ==
    DetectAll(mems, PairLoop(1, 2, Len(mems)), threshold)

\* The corpus and the analyzer's threshold.
ThresholdSamples == { <<1, 2>>, <<3, 5>> }
ConflictDomains == {"work", "personal"}
\* the concepts and domain of a memory dict
MemoryShapes ==
    [concepts : SUBSET Concepts, domain : ConflictDomains]
\* the list of memory dicts with these shapes; a memory's id is its position
MemoryList(shapes) ==
    [i \in 1..Len(shapes) |->
        [id |-> i, concepts |-> shapes[i].concepts, domain |-> shapes[i].domain]]

ConflictInit ==
    /\ corpus = <<>>
    /\ conflict_threshold \in ThresholdSamples
    /\ health_map = <<>>
    /\ conflicts = <<>>
    /\ pair_reports = NoPair
    /\ analyzed = None

\* health_map, conflicts = analyzer.analyze_all(memories)
AnalyzeAll ==
    /\ analyzed = None
    /\ \E n \in 0..MaxCorpus : \E shapes \in [1..n -> MemoryShapes] :
          LET mems == MemoryList(shapes)
          IN /\ corpus' = mems
             /\ health_map' = HealthMap(mems, stale_days)
             /\ conflicts' \in analyze_all(mems, conflict_threshold)
    /\ analyzed' = "analyze_all"
    /\ UNCHANGED <<conflict_threshold, pair_reports>>
    /\ UNCHANGED <<scoreVars, ingestVars, graphVars, healthVars, laterVars,
                   finalVars>>

\* analyzer.detect_potential_conflict on two memories, in both orders
DetectPair ==
    /\ analyzed = None
    /\ \E shapes \in [1..2 -> MemoryShapes] :
          LET a == MemoryList(shapes)[1]
              b == MemoryList(shapes)[2]
          IN /\ corpus' = <<a, b>>
             /\ \E ab \in detect_potential_conflict(a, b, conflict_threshold),
                   ba \in detect_potential_conflict(b, a, conflict_threshold) :
                   pair_reports' = [a |-> 1, b |-> 2, ab |-> ab, ba |-> ba]
    /\ analyzed' = "detect"
    /\ UNCHANGED <<conflict_threshold, health_map, conflicts>>
    /\ UNCHANGED <<scoreVars, ingestVars, graphVars, healthVars, laterVars,
                   finalVars>>

ConflictNext == AnalyzeAll \/ DetectPair
InitConflict ==
    ScoreIdle /\ IngestIdle /\ GraphIdle /\ HealthIdle /\ ConflictInit /\
    LaterIdle /\ FinalIdle
SpecConflict == InitConflict /\ [][ConflictNext]_vars

(***************************************************************************)
(* Claims about conflict detection                                         *)
(***************************************************************************)
\* fractions compared by cross multiplication
FracEq(x, y) == x[1] * y[2] = y[1] * x[2]
FracLeq(x, y) == x[1] * y[2] <= y[1] * x[2]

\* C8 (P5, conflict symmetry): detect_potential_conflict(a, b) returns a
\* report exactly when detect_potential_conflict(b, a) does, and the two
\* reports carry the same overlap.
C8_ConflictSymmetry ==
    analyzed = "detect" =>
        /\ (pair_reports.ab = NoConflict) = (pair_reports.ba = NoConflict)
        /\ pair_reports.ab # NoConflict =>
              /\ FracEq(pair_reports.ab.overlap, pair_reports.ba.overlap)
              /\ pair_reports.ab.memory_a_id = pair_reports.ba.memory_b_id
              /\ pair_reports.ab.memory_b_id = pair_reports.ba.memory_a_id

\* two memories with different numbers of concepts conflict in both orders
C8_Witness ==
    /\ analyzed = "detect"
    /\ pair_reports.ab # NoConflict
    /\ pair_reports.ba # NoConflict
    /\ Cardinality(corpus[pair_reports.a].concepts)
          # Cardinality(corpus[pair_reports.b].concepts)

ReportedPairs(reports) ==
    { <<reports[k].memory_a_id, reports[k].memory_b_id>> :
        k \in 1..Len(reports) }

\* the thresholds analyze_all is compared at
MonotonicityThresholds == { <<1, 3>>, <<1, 2>>, <<3, 5>>, <<1, 1>> }

\* C9 (P6, threshold monotonicity): for thresholds t1 <= t2 the pairs
\* analyze_all reports with t2 are among the pairs it reports with t1.
C9_ThresholdMonotone ==
    analyzed = "analyze_all" =>
        \A t \in MonotonicityThresholds \ {conflict_threshold} :
            /\ FracLeq(conflict_threshold, t) =>
                  \A higher \in analyze_all(corpus, t) :
                      ReportedPairs(higher) \subseteq ReportedPairs(conflicts)
            /\ FracLeq(t, conflict_threshold) =>
                  \A lower \in analyze_all(corpus, t) :
                      ReportedPairs(conflicts) \subseteq ReportedPairs(lower)

\* a pair reported at the analyzer's threshold and no longer at a higher one
C9_Witness ==
    /\ analyzed = "analyze_all"
    /\ conflicts # <<>>
    /\ \E higher \in analyze_all(corpus, <<1, 1>>) : higher = <<>>

\* The Jaccard overlap |A & B| / |A | B| of two memories' concept sets.
Jaccard(a, b) ==
    <<Cardinality(a.concepts \cap b.concepts),
      Cardinality(a.concepts \cup b.concepts)>>

ShouldConflict(a, b) ==
    /\ a.domain = b.domain
    /\ a.concepts # {}
    /\ b.concepts # {}
    /\ FracLeq(conflict_threshold, Jaccard(a, b))

ScenarioCorpus ==
    << [id |-> 1, concepts |-> {"python", "testing", "api"}, domain |-> "work"],
       [id |-> 2, concepts |-> {"python", "testing", "db"}, domain |-> "work"] >>

EntityNames == {"Python", "python"}
EntityTypes == {"concept", "technology"}

\* _initialize_connection: connects once and creates the RLock, which no
\* method of the class acquires
initialize_connection(c, l) ==
    IF c THEN <<c, l>> ELSE <<TRUE, [l EXCEPT !.created = TRUE]>>

\* MATCH (e:Entity) WHERE e.name = $name AND e.type = $type RETURN e.id
query_find_any_type(rows, name, type) ==
    {e \in rows : e.name = name}

query_find(rows, name, type) ==
    {e \in rows : e.name = name /\ e.type = type}

InFlight(t) == calls[t].pc \in {"find", "create", "delete"}

\* caller: Entity(name=..., type=...) gets a fresh uuid4;
\* create_or_get_entity up to its first await
StartCreateOrGet(t, name, type) ==
    /\ ~InFlight(t)
    /\ next_uuid <= MaxEntities
    /\ calls' = [calls EXCEPT ![t] =
          [pc |-> "find", op |-> "create_or_get_entity", name |-> name,
           type |-> type, id |-> next_uuid, result |-> 0]]
    /\ next_uuid' = next_uuid + 1
    /\ conn' = initialize_connection(conn, lock)[1]
    /\ lock' = initialize_connection(conn, lock)[2]
    /\ UNCHANGED <<entities, returned>>
    /\ UNCHANGED <<scoreVars, ingestVars, healthVars, conflictVars,
                   laterVars, finalVars>>

\* delete_entity up to its await
StartDelete(t, id) ==
    /\ ~InFlight(t)
    /\ calls' = [calls EXCEPT ![t] =
          [pc |-> "delete", op |-> "delete_entity", name |-> None,
           type |-> None, id |-> id, result |-> 0]]
    /\ conn' = initialize_connection(conn, lock)[1]
    /\ lock' = initialize_connection(conn, lock)[2]
    /\ UNCHANGED <<entities, next_uuid, returned>>
    /\ UNCHANGED <<scoreVars, ingestVars, healthVars, conflictVars,
                   laterVars, finalVars>>

\* calls made one after the other: no other coroutine is in flight
BeginCreateOrGetSeq(t) ==
    /\ \A u \in Tasks : ~InFlight(u)
    /\ \E name \in EntityNames, type \in EntityTypes :
          StartCreateOrGet(t, name, type)

BeginDeleteSeq(t) ==
    /\ \A u \in Tasks : ~InFlight(u)
    /\ \E e \in entities : StartDelete(t, e.id)

\* calls made while others are suspended at an await
BeginCreateOrGet(t) ==
    \E name \in EntityNames, type \in EntityTypes :
        StartCreateOrGet(t, name, type)

BeginDelete(t) ==
    \E e \in entities : StartDelete(t, e.id)

\* create_or_get_entity, lines 381-397: the find statement runs; a row found
\* ends the call with rows[0][0]
Find(t) ==
    /\ calls[t].pc = "find"
    /\ LET rows == query_find(entities, calls[t].name, calls[t].type)
       IN IF rows # {}
          THEN \E first \in rows :
                 /\ calls' = [calls EXCEPT ![t].pc = "done",
                                           ![t].result = first.id]
                 /\ returned' = returned \cup
                       {[name |-> calls[t].name, type |-> calls[t].type,
                         id |-> first.id]}
          ELSE /\ calls' = [calls EXCEPT ![t].pc = "create"]
               /\ UNCHANGED returned
    /\ UNCHANGED <<entities, next_uuid, conn, lock>>
    /\ UNCHANGED <<scoreVars, ingestVars, healthVars, conflictVars,
                   laterVars, finalVars>>

\* create_or_get_entity, lines 399-431: the CREATE statement runs; the id is
\* the table's primary key
Create(t) ==
    /\ calls[t].pc = "create"
    /\ IF \E e \in entities : e.id = calls[t].id
       THEN /\ calls' = [calls EXCEPT ![t].pc = "failed"]
            /\ UNCHANGED <<entities, returned>>
       ELSE /\ entities' = entities \cup
                  {[id |-> calls[t].id, name |-> calls[t].name,
                    type |-> calls[t].type]}
            /\ calls' = [calls EXCEPT ![t].pc = "done",
                                      ![t].result = calls[t].id]
            /\ returned' = returned \cup
                  {[name |-> calls[t].name, type |-> calls[t].type,
                    id |-> calls[t].id]}
    /\ UNCHANGED <<next_uuid, conn, lock>>
    /\ UNCHANGED <<scoreVars, ingestVars, healthVars, conflictVars,
                   laterVars, finalVars>>

\* delete_entity, lines 779-787: DETACH DELETE runs; ids returned for the
\* deleted entity are no longer ids of a stored entity
Delete(t) ==
    /\ calls[t].pc = "delete"
    /\ entities' = {e \in entities : e.id # calls[t].id}
    /\ returned' = {r \in returned : r.id # calls[t].id}
    /\ calls' = [calls EXCEPT ![t].pc = "done", ![t].result = 1]
    /\ UNCHANGED <<next_uuid, conn, lock>>
    /\ UNCHANGED <<scoreVars, ingestVars, healthVars, conflictVars,
                   laterVars, finalVars>>

GraphInit ==
    /\ entities = {}
    /\ calls = [t \in Tasks |-> IdleCall]
    /\ next_uuid = 1
    /\ returned = {}
    /\ conn = FALSE
    /\ lock = [created |-> FALSE, holder |-> 0]

InitGraph ==
    ScoreIdle /\ IngestIdle /\ GraphInit /\ HealthIdle /\ ConflictIdle /\
    LaterIdle /\ FinalIdle

GraphSeqNext ==
    \E t \in Tasks :
        \/ BeginCreateOrGetSeq(t)
        \/ BeginDeleteSeq(t)
        \/ Find(t)
        \/ Create(t)
        \/ Delete(t)
SpecGraphSeq == InitGraph /\ [][GraphSeqNext]_vars

GraphConcNext ==
    \E t \in Tasks :
        \/ BeginCreateOrGet(t)
        \/ BeginDelete(t)
        \/ Find(t)
        \/ Create(t)
        \/ Delete(t)
SpecGraphConc == InitGraph /\ [][GraphConcNext]_vars

(***************************************************************************)
(* Entity uniqueness (GraphStore.create_or_get_entity)                     *)
(***************************************************************************)
\* C4 (entity uniqueness): with calls made one after the other and no
\* delete of the entity in between, two calls with the same name and type
\* returned the same id, two calls with the same name and different types
\* returned different ids, and no (name, type) has more than one row.
C4_EntityUnique ==
    /\ \A r1, r2 \in returned :
          (r1.name = r2.name /\ r1.type = r2.type) => r1.id = r2.id
    /\ \A r1, r2 \in returned :
          (r1.name = r2.name /\ r1.type # r2.type) => r1.id # r2.id
    /\ \A e1, e2 \in entities :
          (e1.name = e2.name /\ e1.type = e2.type) => e1 = e2

\* a call that got an existing entity's id back, with the same name also
\* stored under another type
C4_Witness ==
    /\ \E t \in Tasks :
          /\ calls[t].op = "create_or_get_entity"
          /\ calls[t].pc = "done"
          /\ calls[t].result # calls[t].id
    /\ \E r1, r2 \in returned : r1.name = r2.name /\ r1.type # r2.type

\* C5 (writes are mutually exclusive), stated by what the claim says it
\* ensures: however create_or_get_entity calls for one (name, type) overlap
\* at their await points, at most one Entity row with that pair exists and
\* every call returned that row's id.
C5_WritesExclusive ==
    /\ \A e1, e2 \in entities :
          (e1.name = e2.name /\ e1.type = e2.type) => e1.id = e2.id
    /\ \A r \in returned : \A e \in entities :
          (r.name = e.name /\ r.type = e.type) => r.id = e.id

\* casefold, accent-strip and whitespace collapse of an entity name, on the
\* names of the model
NormalizeName(n) ==
    IF n = "Python" THEN "python" ELSE n

\* C6 (identity by normalized name): calls whose names differ only in
\* letter case, with the same type, returned the same id and left one row.
C6_NormalizedIdentity ==
    /\ \A r1, r2 \in returned :
          (NormalizeName(r1.name) = NormalizeName(r2.name) /\ r1.type = r2.type)
              => r1.id = r2.id
    /\ \A e1, e2 \in entities :
          (NormalizeName(e1.name) = NormalizeName(e2.name) /\ e1.type = e2.type)
              => e1 = e2

(***************************************************************************)
(* Write coordinator: add_memory.  Content is a sequence of tokens: a      *)
(* piece of text, "sp" (a blank), "nl" (a newline) or "dot" (a period).    *)
(***************************************************************************)
IsSpace(tok) == tok \in {"sp", "nl"}

RECURSIVE DropLeadingSpace(_)
DropLeadingSpace(s) ==
    IF s # <<>> /\ IsSpace(Head(s)) THEN DropLeadingSpace(Tail(s)) ELSE s

\* runs of blanks and newlines become one blank; none is kept at the end
RECURSIVE CollapseSpace(_)
CollapseSpace(s) ==
    IF s = <<>> THEN <<>>
    ELSE IF IsSpace(Head(s))
    THEN LET rest == DropLeadingSpace(s)
         IN IF rest = <<>> THEN <<>> ELSE <<"sp">> \o CollapseSpace(rest)
    ELSE <<Head(s)>> \o CollapseSpace(Tail(s))

\* step 1: normalize content (whitespace, newline)
normalize_content(content) == CollapseSpace(DropLeadingSpace(content))

\* the form two contents are compared in: a final period does not count
content_key(content) ==
    LET n == normalize_content(content)
    IN IF n # <<>> /\ n[Len(n)] = "dot" THEN SubSeq(n, 1, Len(n) - 1) ELSE n

\* Mutant: stored contents are compared byte for byte.
find_exact_duplicate_bytes(rows, content) ==
    {i \in 1..Len(rows) : rows[i].content = normalize_content(content)}

\* step 2: the stored memories whose normalized form equals the content's
find_exact_duplicate(rows, content) ==
    {i \in 1..Len(rows) : content_key(rows[i].content) = content_key(content)}

SetMin(S) == CHOOSE x \in S : \A y \in S : x <= y

Indentation == "User prefers 4 spaces for Python indentation"
DarkMode == "Jay prefers dark mode in all applications"
ContentSamples ==
    { <<Indentation>>, <<Indentation, "dot">>, <<"sp", Indentation, "nl">>,
      <<DarkMode>>, <<DarkMode, "dot">>,
      <<Indentation, "sp", "sp", DarkMode>>, <<Indentation, "nl", DarkMode>> }

IngestInit ==
    /\ memories = <<>>
    /\ add_result = NoAddResult

\* add_memory(content): steps 1-3, 5 and 7 of the algorithm; whether the
\* nearest stored vector has cosine >= 0.90 is the embedding provider's answer
add_memory ==
    \E content \in ContentSamples, near \in BOOLEAN :
        LET dups == find_exact_duplicate(memories, content)
            result(c, id) ==
                [classification |-> c, id |-> id, content |-> content,
                 count_before |-> Len(memories)]
        IN /\ IF dups # {}
              THEN /\ add_result' = result("REDUNDANT", memories[SetMin(dups)].id)
                   /\ UNCHANGED memories
              ELSE IF near /\ memories # <<>>
              THEN /\ \E i \in 1..Len(memories) :
                         add_result' = result("CONTRADICTORY", memories[i].id)
                   /\ UNCHANGED memories
              ELSE /\ Len(memories) < MaxMemories
                   /\ memories' = Append(memories,
                         [id |-> Len(memories) + 1,
                          content |-> normalize_content(content)])
                   /\ add_result' = result("NEW", Len(memories) + 1)
           /\ UNCHANGED <<scoreVars, graphVars, healthVars, conflictVars,
                          laterVars, finalVars>>

IngestNext == add_memory
InitIngest ==
    ScoreIdle /\ IngestInit /\ GraphIdle /\ HealthIdle /\ ConflictIdle /\
    LaterIdle /\ FinalIdle
SpecIngest == InitIngest /\ [][IngestNext]_vars

UpperCase == <<"A", "B", "C", "D", "E", "F", "G", "H", "I", "J", "K", "L", "M",
               "N", "O", "P", "Q", "R", "S", "T", "U", "V", "W", "X", "Y", "Z">>
LowerCase == <<"a", "b", "c", "d", "e", "f", "g", "h", "i", "j", "k", "l", "m",
               "n", "o", "p", "q", "r", "s", "t", "u", "v", "w", "x", "y", "z">>

lower_char(ch) ==
    IF \E i \in 1..Len(UpperCase) : UpperCase[i] = ch
    THEN LowerCase[CHOOSE i \in 1..Len(UpperCase) : UpperCase[i] = ch]
    ELSE ch

\* str.lower()
str_lower(s) == [i \in 1..Len(s) |-> lower_char(s[i])]

\* string.punctuation (without the grave accent, which no modelled string
\* contains)
Punctuation == {"!", "\"", "#", "$", "%", "&", "'", "(", ")", "*", "+", ",",
                "-", ".", "/", ":", ";", "<", "=", ">", "?", "@", "[", "\\",
                "]", "^", "_", "{", "|", "}", "~"}

\* s.translate(str.maketrans('', '', string.punctuation))
RECURSIVE strip_punctuation(_)
strip_punctuation(s) ==
    IF s = <<>> THEN <<>>
    ELSE IF Head(s) \in Punctuation THEN strip_punctuation(Tail(s))
    ELSE <<Head(s)>> \o strip_punctuation(Tail(s))

Whitespace == {" ", "\n", "\t"}

RECURSIVE split_from(_, _)
split_from(s, word) ==
    IF s = <<>> THEN (IF word = <<>> THEN <<>> ELSE <<word>>)
    ELSE IF Head(s) \in Whitespace
    THEN (IF word = <<>> THEN <<>> ELSE <<word>>) \o split_from(Tail(s), <<>>)
    ELSE split_from(Tail(s), Append(word, Head(s)))

\* str.split(): the maximal runs of characters that are not whitespace
str_split(s) == split_from(s, <<>>)

\* `t in s` for two strings
str_contains(s, t) ==
    \E i \in 1..(Len(s) - Len(t) + 1) : SubSeq(s, i, i + Len(t) - 1) = t

\* " ".join(words)
RECURSIVE str_join(_)
str_join(words) ==
    IF words = <<>> THEN <<>>
    ELSE IF Len(words) = 1 THEN Head(words)
    ELSE Head(words) \o <<" ">> \o str_join(Tail(words))

\* the elements of a list
Elems(s) == {s[i] : i \in 1..Len(s)}

(***************************************************************************)
(* ScoreNormalizer.adaptive_weights (src/src/core/scoring.py)              *)
(* Source weights are in thousandths.                                      *)
(***************************************************************************)
pronouns == {<<"i", "t">>, <<"t", "h", "a", "t">>, <<"t", "h", "i", "s">>, <<"t", "h", "e", "s", "e">>, <<"t", "h", "o", "s", "e">>,
             <<"h", "e">>, <<"s", "h", "e">>, <<"t", "h", "e", "y">>}
specific_terms == {<<"u", "u", "i", "d">>, <<"i", "d">>, <<"n", "a", "m", "e", "d">>, <<"c", "a", "l", "l", "e", "d">>, <<"e", "n", "t", "i", "t", "y">>}
question_words == {<<"w", "h", "a", "t">>, <<"h", "o", "w">>, <<"w", "h", "y">>, <<"w", "h", "e", "n">>, <<"w", "h", "e", "r", "e">>,
                   <<"w", "h", "o">>, <<"w", "h", "i", "c", "h">>}

SourceWeights(conversation, semantic, graph) ==
    [conversation |-> conversation, semantic |-> semantic, graph |-> graph]

\* lines 122-166: the heuristics of hybrid mode, first match wins
hybrid_weights(q, has_session) ==
    LET query_lower == str_lower(q)
        query_words == Elems(str_split(strip_punctuation(query_lower)))
        has_pronouns == \E pronoun \in pronouns : pronoun \in query_words
        has_specific == \E term \in specific_terms : str_contains(query_lower, term)
        has_question == \E w \in question_words : w \in query_words
    IN IF has_pronouns THEN SourceWeights(600, 250, 150)
       ELSE IF has_specific THEN SourceWeights(200, 300, 500)
       ELSE IF has_question THEN SourceWeights(250, 500, 250)
       ELSE IF has_session THEN SourceWeights(400, 350, 250)
       ELSE SourceWeights(300, 400, 300)

\* lines 168-171: divide every weight by the total when the total is > 0
normalize_weights(weights) ==
    LET total == weights.conversation + weights.semantic + weights.graph
    IN IF total > 0
       THEN [k \in DOMAIN weights |-> (weights[k] * 1000) \div total]
       ELSE weights

\* Mutant: the mode is not looked at, every call gets the hybrid heuristics.
adaptive_weights_mode_ignored(q, has_session, mode) ==
    normalize_weights(hybrid_weights(q, has_session))

adaptive_weights(q, has_session, mode) ==
    LET weights ==
            IF mode = "semantic" THEN SourceWeights(0, 1000, 0)
            ELSE IF mode = "structured" THEN SourceWeights(0, 0, 1000)
            ELSE hybrid_weights(q, has_session)
    IN normalize_weights(weights)

\* number of words in a query
MaxQueryWords == 2

\* words queries are made of
QueryWordSamples ==
    {<<"i", "t">>, <<"W", "h", "a", "t">>, <<"d", "i", "d">>, <<"e", "n", "t", "i", "t", "y">>, <<"p", "r", "o", "j", "e", "c", "t">>, <<"t", "h", "a", "t", "?">>, <<"T", "e", "l", "l">>}
SearchModes == {"semantic", "structured", "hybrid"}

WeightInit == WeightIdle

\* adaptive_weights(query, has_session, mode)
AdaptiveWeights ==
    /\ aw_weights = NoWeights
    /\ \E n \in 0..MaxQueryWords : \E ws \in [1..n -> QueryWordSamples] :
       \E has_session \in BOOLEAN, mode \in SearchModes :
          /\ aw_query' = str_join(ws)
          /\ aw_has_session' = has_session
          /\ aw_mode' = mode
          /\ aw_weights' = adaptive_weights(str_join(ws), has_session, mode)
    /\ UNCHANGED <<coreVars, proactiveVars, canonVars, constellationVars,
                   finalVars>>

WeightNext == AdaptiveWeights
InitWeights ==
    CoreIdle /\ WeightInit /\ ProactiveIdle /\ CanonIdle /\ ConstellationIdle /\ FinalIdle
SpecWeights == InitWeights /\ [][WeightNext]_vars

\* an adaptive_weights call has returned
WeightsReturned == aw_weights # NoWeights

\* C11 (P3, weights sum to one): the three source weights returned by
\* adaptive_weights are each in [0,1] and sum to 1.0 within 0.01, whatever the
\* query, has_session and mode; semantic mode puts all weight on the semantic
\* source and structured mode all weight on the graph source.
C11_WeightsSumToOne ==
    WeightsReturned =>
        /\ \A k \in DOMAIN aw_weights : aw_weights[k] >= 0 /\ aw_weights[k] <= 1000
        /\ Abs(aw_weights.conversation + aw_weights.semantic + aw_weights.graph
               - 1000) <= 10
        /\ aw_mode = "semantic" => aw_weights = SourceWeights(0, 1000, 0)
        /\ aw_mode = "structured" => aw_weights = SourceWeights(0, 0, 1000)

\* a pronoun query in semantic mode with a session: the heuristics would have
\* moved weight to the conversation source
C11_Witness ==
    /\ WeightsReturned
    /\ aw_mode = "semantic"
    /\ aw_has_session
    /\ aw_query = <<"i", "t", " ", "W", "h", "a", "t">>
    /\ aw_weights.semantic = 1000

\* the words of the query, lower-cased and without punctuation
WordsOf(q) == Elems(str_split(strip_punctuation(str_lower(q))))
ContainsPronoun(q) == WordsOf(q) \cap pronouns # {}
ContainsIdentifierWord(q) == WordsOf(q) \cap specific_terms # {}
ContainsQuestionWord(q) == WordsOf(q) \cap question_words # {}

\* C19 (adaptive weight precedence in hybrid mode): a query with a pronoun
\* gets conversation as the strictly largest weight; one with an identifier
\* word (id, uuid, named, called, entity) and no pronoun gets graph as the
\* largest; one with a question word, no pronoun and no identifier word gets
\* semantic as the largest; one matching none gets 0.4 conversation with a
\* session and 0.3/0.4/0.3 without.
C19_WeightPrecedence ==
    (WeightsReturned /\ aw_mode = "hybrid") =>
        LET w == aw_weights
        IN IF ContainsPronoun(aw_query)
           THEN w.conversation > w.semantic /\ w.conversation > w.graph
           ELSE IF ContainsIdentifierWord(aw_query)
           THEN w.graph >= w.conversation /\ w.graph >= w.semantic
           ELSE IF ContainsQuestionWord(aw_query)
           THEN w.semantic >= w.conversation /\ w.semantic >= w.graph
           ELSE IF aw_has_session
           THEN w.conversation > 300
           ELSE w = SourceWeights(300, 400, 300)

(***************************************************************************)
(* ProactiveSurfacer (src/src/core/retrieval.py)                           *)
(* Confidences are in thousandths.                                         *)
(***************************************************************************)
ProactiveSuggestion(memory_id, trigger, confidence) ==
    [memory_id |-> memory_id, trigger |-> trigger, confidence |-> confidence]

\* Python truth value of an optional string: None and "" are false
TruthyStr(s) == s # NoneStr /\ s # <<>>

\* s.replace(",", " ")
replace_commas(s) == [i \in 1..Len(s) |-> IF s[i] = "," THEN " " ELSE s[i]]

\* [w for w in words if len(w) > 3]
RECURSIVE long_words(_)
long_words(words) ==
    IF words = <<>> THEN <<>>
    ELSE (IF Len(Head(words)) > 3 THEN <<Head(words)>> ELSE <<>>)
         \o long_words(Tail(words))

\* line 571: [p for p in trigger_phrases if p in context_lower]
RECURSIVE matching_phrases(_, _)
matching_phrases(trigger_phrases, context_lower) ==
    IF trigger_phrases = <<>> THEN <<>>
    ELSE (IF str_contains(context_lower, Head(trigger_phrases))
          THEN <<Head(trigger_phrases)>> ELSE <<>>)
         \o matching_phrases(Tail(trigger_phrases), context_lower)

\* lines 556-564: the phrases added for the common temporal patterns
pattern_phrases(surfaces_lower) ==
    (IF str_contains(surfaces_lower, <<"s", "t", "a", "n", "d", "u", "p">>)
     THEN <<<<"s", "t", "a", "n", "d", "u", "p">>, <<"d", "a", "i", "l", "y">>, <<"m", "o", "r", "n", "i", "n", "g", " ", "m", "e", "e", "t", "i", "n", "g">>>> ELSE <<>>)
    \o (IF str_contains(surfaces_lower, <<"c", "o", "d", "e", " ", "r", "e", "v", "i", "e", "w">>)
        THEN <<<<"r", "e", "v", "i", "e", "w">>, <<"p", "r">>, <<"p", "u", "l", "l", " ", "r", "e", "q", "u", "e", "s", "t">>>> ELSE <<>>)
    \o (IF str_contains(surfaces_lower, <<"d", "e", "b", "u", "g">>)
        THEN <<<<"d", "e", "b", "u", "g">>, <<"e", "r", "r", "o", "r">>, <<"b", "u", "g">>, <<"f", "i", "x">>>> ELSE <<>>)
    \o (IF str_contains(surfaces_lower, <<"p", "l", "a", "n", "n", "i", "n", "g">>)
        THEN <<<<"p", "l", "a", "n">>, <<"s", "p", "r", "i", "n", "t">>, <<"r", "o", "a", "d", "m", "a", "p">>>> ELSE <<>>)

\* line 567: the words of surfaces_when longer than 3 characters
raw_words(surfaces_lower) ==
    long_words(str_split(replace_commas(surfaces_lower)))

\* Mutant: every word of surfaces_when is a trigger phrase, short ones too.
check_temporal_trigger_short_words(sf, memory_id, surfaces_when, context) ==
    IF ~TruthyStr(surfaces_when) THEN NoSuggestion
    ELSE LET surfaces_lower == str_lower(surfaces_when)
             context_lower == str_lower(context)
             trigger_phrases ==
                 pattern_phrases(surfaces_lower)
                 \o str_split(replace_commas(surfaces_lower))
             matches == matching_phrases(trigger_phrases, context_lower)
         IN IF matches = <<>> THEN NoSuggestion
            ELSE ProactiveSuggestion(memory_id, "temporal",
                                     sf.temporal_confidence)

check_temporal_trigger(sf, memory_id, surfaces_when, context) ==
    IF ~TruthyStr(surfaces_when) THEN NoSuggestion
    ELSE LET surfaces_lower == str_lower(surfaces_when)
             context_lower == str_lower(context)
             trigger_phrases ==
                 pattern_phrases(surfaces_lower) \o raw_words(surfaces_lower)
             matches == matching_phrases(trigger_phrases, context_lower)
         IN IF matches = <<>> THEN NoSuggestion
            ELSE ProactiveSuggestion(memory_id, "temporal",
                                     sf.temporal_confidence)

check_domain_trigger(sf, memory_id, memory_domain, conv_domain) ==
    IF ~Truthy(conv_domain) THEN NoSuggestion
    ELSE IF memory_domain = conv_domain
    THEN ProactiveSuggestion(memory_id, "domain", sf.domain_confidence)
    ELSE NoSuggestion

\* Mutant: one shared concept is enough.
check_concept_trigger_any_overlap(sf, memory_id, memory_concepts, recent, min_overlap) ==
    IF memory_concepts = {} \/ recent = {} THEN NoSuggestion
    ELSE LET shared == memory_concepts \cap recent
         IN IF Cardinality(shared) >= 1
            THEN ProactiveSuggestion(memory_id, "recurring_concept",
                                     sf.concept_confidence)
            ELSE NoSuggestion

\* concept lists are modelled by the sets set() makes of them
check_concept_trigger(sf, memory_id, memory_concepts, recent, min_overlap) ==
    IF memory_concepts = {} \/ recent = {} THEN NoSuggestion
    ELSE LET shared == memory_concepts \cap recent
         IN IF Cardinality(shared) >= min_overlap
            THEN ProactiveSuggestion(memory_id, "recurring_concept",
                                     sf.concept_confidence)
            ELSE NoSuggestion

\* lines 663-701: the scan; acc is the suggestions list, seen_ids the ids
\* already suggested
RECURSIVE scan_memories(_, _, _, _, _, _, _)
scan_memories(sf, mems, context, conv_domain, recent, acc, seen_ids) ==
    IF mems = <<>> THEN acc
    ELSE
      LET mem == Head(mems)
          rest == Tail(mems)
          temporal == check_temporal_trigger(sf, mem.id, mem.surfaces_when,
                                             context)
          domain_sug == check_domain_trigger(sf, mem.id, mem.domain,
                                             conv_domain)
          concept_sug == check_concept_trigger(sf, mem.id, mem.concepts,
                                               recent, 2)
          found == IF temporal # NoSuggestion THEN temporal
                   ELSE IF domain_sug # NoSuggestion THEN domain_sug
                   ELSE concept_sug
      IN IF mem.id \in seen_ids \/ found = NoSuggestion
         THEN scan_memories(sf, rest, context, conv_domain, recent, acc,
                            seen_ids)
         ELSE scan_memories(sf, rest, context, conv_domain, recent,
                            Append(acc, found), seen_ids \cup {mem.id})

\* s with its i-th element removed
RemoveAt(s, i) == SubSeq(s, 1, i - 1) \o SubSeq(s, i + 1, Len(s))

\* list.sort(key=confidence, reverse=True): stable, equal keys keep their order
RECURSIVE sort_by_confidence(_)
sort_by_confidence(s) ==
    IF s = <<>> THEN <<>>
    ELSE LET i == CHOOSE k \in 1..Len(s) :
                    /\ \A j \in 1..Len(s) : s[j].confidence <= s[k].confidence
                    /\ \A j \in 1..(k - 1) : s[j].confidence < s[k].confidence
         IN <<s[i]>> \o sort_by_confidence(RemoveAt(s, i))

\* s[:n]
Take(s, n) == SubSeq(s, 1, Min(n, Len(s)))

\* the limit of get_proactive_surfaces
SurfaceLimit == 5

\* Mutant: the list is cut to five before it is sorted.
get_proactive_surfaces_cut_first(sf, mems, context, conv_domain, recent) ==
    sort_by_confidence(
        Take(scan_memories(sf, mems, context, conv_domain, recent, <<>>, {}),
             SurfaceLimit))

get_proactive_surfaces(sf, mems, context, conv_domain, recent) ==
    Take(sort_by_confidence(
             scan_memories(sf, mems, context, conv_domain, recent, <<>>, {})),
         SurfaceLimit)

\* number of memories handed to get_proactive_surfaces
MaxSurfaceCorpus == 6

AtStandupMeetings == <<"a", "t", " ", "s", "t", "a", "n", "d", "u", "p", " ", "m", "e", "e", "t", "i", "n", "g", "s">>
LetsStartStandup == <<"l", "e", "t", "'", "s", " ", "s", "t", "a", "r", "t", " ", "t", "h", "e", " ", "d", "a", "i", "l", "y", " ", "s", "t", "a", "n", "d", "u", "p">>
DatabaseMigration == <<"W", "o", "r", "k", "i", "n", "g", " ", "o", "n", " ", "t", "h", "e", " ", "d", "a", "t", "a", "b", "a", "s", "e", " ", "m", "i", "g", "r", "a", "t", "i", "o", "n">>

\* (surfaces_when, domain, concepts) of the memories of a corpus
SurfaceShapes ==
    { <<AtStandupMeetings, "work", {ConceptPool[1], ConceptPool[2]}>>,
      <<NoneStr, "work", {}>>,
      <<<<>>, "personal", {ConceptPool[1], ConceptPool[2]}>> }
\* a corpus repeats a pattern of two shapes
SurfacePatterns == [1..2 -> SurfaceShapes]
\* how ids are given to the memories of a corpus: all different, or the ids
\* of the first three repeated
IdSchemes == {"unique", "repeated"}
MemoryId(scheme, i) == IF scheme = "unique" THEN i ELSE ((i - 1) % 3) + 1
SurfaceCorpus(pattern, n, scheme) ==
    [i \in 1..n |->
        LET shape == pattern[((i - 1) % Len(pattern)) + 1]
        IN [id |-> MemoryId(scheme, i), surfaces_when |-> shape[1],
            domain |-> shape[2], concepts |-> shape[3]]]
SurfacerConfigs ==
    { DefaultSurfacer,
      [temporal_confidence |-> 200, domain_confidence |-> 900,
       concept_confidence |-> 500] }
ContextSamples == {LetsStartStandup, DatabaseMigration}
RecentConceptSamples == {{}, {ConceptPool[1]}, {ConceptPool[1], ConceptPool[2]}}
\* arguments of the direct check_temporal_trigger calls
SurfacesWhenSamples ==
    {NoneStr, <<>>, AtStandupMeetings, <<"A", "t", " ", "S", "t", "a", "n", "d", "u", "p">>,
     <<"d", "u", "r", "i", "n", "g", " ", "c", "o", "d", "e", " ", "r", "e", "v", "i", "e", "w", "s", ",", " ", "p", "l", "a", "n", "n", "i", "n", "g">>}
TemporalContextSamples ==
    {LetsStartStandup, DatabaseMigration, <<"D", "a", "i", "l", "y", " ", "s", "y", "n", "c">>, <<"P", "R", " ", "#", "1", "2">>, <<>>}

ProactiveInit ==
    /\ surfacer \in SurfacerConfigs
    /\ pro_memories = <<>>
    /\ current_context = <<>>
    /\ conversation_domain = None
    /\ recent_concepts = {}
    /\ suggestions = <<>>
    /\ surfaces = <<>>
    /\ temporal_call = NoTemporalCall
    /\ surfaced = None

\* get_proactive_surfaces(memories, current_context, conversation_domain,
\* recent_concepts)
GetProactiveSurfaces ==
    /\ surfaced = None
    /\ \E n \in 0..MaxSurfaceCorpus, pattern \in SurfacePatterns,
          scheme \in IdSchemes, context \in ContextSamples,
          conv_domain \in {None, "work"}, recent \in RecentConceptSamples :
          LET mems == SurfaceCorpus(pattern, n, scheme)
          IN /\ pro_memories' = mems
             /\ current_context' = context
             /\ conversation_domain' = conv_domain
             /\ recent_concepts' = recent
             /\ suggestions' = scan_memories(surfacer, mems, context,
                                             conv_domain, recent, <<>>, {})
             /\ surfaces' = get_proactive_surfaces(surfacer, mems, context,
                                                   conv_domain, recent)
    /\ surfaced' = "get_proactive_surfaces"
    /\ UNCHANGED <<surfacer, temporal_call>>
    /\ UNCHANGED <<coreVars, weightVars, canonVars, constellationVars,
                   finalVars>>

\* check_temporal_trigger(memory_id, memory_title, surfaces_when,
\* current_context)
CheckTemporalTrigger ==
    /\ surfaced = None
    /\ \E sw \in SurfacesWhenSamples, context \in TemporalContextSamples :
          temporal_call' =
              [surfaces_when |-> sw, current_context |-> context,
               result |-> check_temporal_trigger(surfacer, 1, sw, context)]
    /\ surfaced' = "check_temporal_trigger"
    /\ UNCHANGED <<surfacer, pro_memories, current_context,
                   conversation_domain, recent_concepts, suggestions,
                   surfaces>>
    /\ UNCHANGED <<coreVars, weightVars, canonVars, constellationVars,
                   finalVars>>

ProactiveNext == GetProactiveSurfaces \/ CheckTemporalTrigger
InitProactive ==
    CoreIdle /\ WeightIdle /\ ProactiveInit /\ CanonIdle /\ ConstellationIdle /\ FinalIdle
SpecProactive == InitProactive /\ [][ProactiveNext]_vars

(***************************************************************************)
(* Claims about the proactive surfacer                                     *)
(***************************************************************************)
SurfacesReturned == surfaced = "get_proactive_surfaces"

FiresTemporal(mem) ==
    check_temporal_trigger(surfacer, mem.id, mem.surfaces_when,
                           current_context) # NoSuggestion
FiresDomain(mem) ==
    Truthy(conversation_domain) /\ mem.domain = conversation_domain
FiresConcept(mem) == Cardinality(mem.concepts \cap recent_concepts) >= 2

\* the first trigger that fires for a memory, in the order of the claim
FirstTrigger(mem) ==
    IF FiresTemporal(mem) THEN "temporal"
    ELSE IF FiresDomain(mem) THEN "domain"
    ELSE IF FiresConcept(mem) THEN "recurring_concept"
    ELSE None

ConfiguredConfidence(trigger) ==
    CASE trigger = "temporal" -> surfacer.temporal_confidence
      [] trigger = "domain" -> surfacer.domain_confidence
      [] OTHER -> surfacer.concept_confidence

\* the list entries with a given id for which some trigger fires
FiringEntries(id) ==
    {k \in 1..Len(pro_memories) :
        pro_memories[k].id = id /\ FirstTrigger(pro_memories[k]) # None}

OncePerMemoryByPrecedence(list) ==
    /\ \A i, j \in 1..Len(list) :
          list[i].memory_id = list[j].memory_id => i = j
    /\ \A i \in 1..Len(list) :
          LET firing == FiringEntries(list[i].memory_id)
          IN /\ firing # {}
             /\ LET k == CHOOSE x \in firing : \A y \in firing : x <= y
                IN /\ list[i].trigger = FirstTrigger(pro_memories[k])
                   /\ list[i].confidence =
                          ConfiguredConfidence(list[i].trigger)

\* C12 (proactive trigger precedence): get_proactive_surfaces emits at most
\* one suggestion per memory id, whatever the list contains; its trigger is
\* the first that fires for the memory in the order temporal, domain,
\* recurring_concept (which needs 2 shared concepts), and its confidence is
\* the configured confidence of that trigger.
C12_TriggerPrecedence ==
    SurfacesReturned =>
        /\ OncePerMemoryByPrecedence(suggestions)
        /\ OncePerMemoryByPrecedence(surfaces)

\* a list in which one id occurs twice and both entries fire, with different
\* triggers, and a memory that only the concept trigger reaches
C12_Witness ==
    /\ SurfacesReturned
    /\ \E i, j \in 1..Len(pro_memories) :
          /\ i < j
          /\ pro_memories[i].id = pro_memories[j].id
          /\ FirstTrigger(pro_memories[i]) # None
          /\ FirstTrigger(pro_memories[j]) # None
          /\ FirstTrigger(pro_memories[i]) # FirstTrigger(pro_memories[j])
    /\ \E i \in 1..Len(surfaces) : surfaces[i].trigger = "recurring_concept"

\* C13 (proactive result bound and order): at most 5 suggestions are
\* returned, in non-increasing order of confidence; a suggestion cut off by
\* the limit has a confidence no greater than any returned one; an empty
\* corpus gives an empty result.
C13_BoundAndOrder ==
    SurfacesReturned =>
        /\ Len(surfaces) <= 5
        /\ \A i \in 1..(Len(surfaces) - 1) :
              surfaces[i].confidence >= surfaces[i + 1].confidence
        /\ \A k \in 1..Len(suggestions) :
              suggestions[k] \notin Elems(surfaces) =>
                  \A i \in 1..Len(surfaces) :
                      suggestions[k].confidence <= surfaces[i].confidence
        /\ pro_memories = <<>> => surfaces = <<>>

\* six suggestions collected; the last one is returned and an earlier one
\* with a lower confidence is cut off
C13_Witness ==
    /\ SurfacesReturned
    /\ Len(suggestions) = 6
    /\ Len(surfaces) = 5
    /\ suggestions[6] \in Elems(surfaces)
    /\ \E k \in 1..5 :
          /\ suggestions[k] \notin Elems(surfaces)
          /\ suggestions[k].confidence < suggestions[6].confidence

TemporalChecked == surfaced = "check_temporal_trigger"

\* the whitespace-separated tokens of surfaces_when
TokensOf(surfaces_when) ==
    IF surfaces_when = NoneStr THEN {} ELSE Elems(str_split(surfaces_when))

TokenOccurs(surfaces_when, context) ==
    \E tok \in TokensOf(surfaces_when) :
        str_contains(str_lower(context), str_lower(tok))

\* scenario 5: one memory 'at standup meetings' in domain work, context
\* "let's start the daily standup", conversation domain work
StandupScenario ==
    /\ SurfacesReturned
    /\ surfacer = DefaultSurfacer
    /\ Len(pro_memories) = 1
    /\ pro_memories[1].surfaces_when = AtStandupMeetings
    /\ pro_memories[1].domain = "work"
    /\ current_context = LetsStartStandup
    /\ conversation_domain = "work"

StandupResult ==
    StandupScenario =>
        surfaces = <<ProactiveSuggestion(pro_memories[1].id, "temporal", 700)>>

TemporalResultShape ==
    temporal_call.result # NoSuggestion =>
        /\ temporal_call.result.trigger = "temporal"
        /\ temporal_call.result.confidence = surfacer.temporal_confidence

\* C20 as stated (temporal trigger definition): check_temporal_trigger returns
\* a suggestion, trigger temporal with the temporal confidence, exactly when
\* some token of surfaces_when occurs as a case-insensitive substring of the
\* context; the standup scenario gives one temporal suggestion at 0.7.
C20_TemporalTokenMatch ==
    /\ TemporalChecked =>
          /\ (temporal_call.result # NoSuggestion) <=>
                 TokenOccurs(temporal_call.surfaces_when,
                             temporal_call.current_context)
          /\ TemporalResultShape
    /\ StandupResult

\* the phrases the code adds when surfaces_when names a known occasion
OccasionPhrases(surfaces_lower) ==
    (IF str_contains(surfaces_lower, <<"s", "t", "a", "n", "d", "u", "p">>)
     THEN {<<"s", "t", "a", "n", "d", "u", "p">>, <<"d", "a", "i", "l", "y">>, <<"m", "o", "r", "n", "i", "n", "g", " ", "m", "e", "e", "t", "i", "n", "g">>} ELSE {})
    \cup (IF str_contains(surfaces_lower, <<"c", "o", "d", "e", " ", "r", "e", "v", "i", "e", "w">>)
          THEN {<<"r", "e", "v", "i", "e", "w">>, <<"p", "r">>, <<"p", "u", "l", "l", " ", "r", "e", "q", "u", "e", "s", "t">>} ELSE {})
    \cup (IF str_contains(surfaces_lower, <<"d", "e", "b", "u", "g">>)
          THEN {<<"d", "e", "b", "u", "g">>, <<"e", "r", "r", "o", "r">>, <<"b", "u", "g">>, <<"f", "i", "x">>} ELSE {})
    \cup (IF str_contains(surfaces_lower, <<"p", "l", "a", "n", "n", "i", "n", "g">>)
          THEN {<<"p", "l", "a", "n">>, <<"s", "p", "r", "i", "n", "t">>, <<"r", "o", "a", "d", "m", "a", "p">>} ELSE {})

TriggerPhraseOccurs(surfaces_when, context) ==
    /\ surfaces_when # NoneStr
    /\ LET surfaces_lower == str_lower(surfaces_when)
           words == Elems(str_split(replace_commas(surfaces_lower)))
           phrases == {w \in words : Len(w) >= 4}
                      \cup OccasionPhrases(surfaces_lower)
       IN \E ph \in phrases : str_contains(str_lower(context), ph)

\* C20 as amended: check_temporal_trigger returns a suggestion, trigger
\* temporal with the temporal confidence, exactly when some trigger phrase
\* occurs as a substring of the lower-cased context, the trigger phrases
\* being the words of the lower-cased surfaces_when longer than 3 characters
\* and the phrases added for the occasions standup, code review, debug and
\* planning; the standup scenario gives one temporal suggestion at 0.7.
C20_TemporalTrigger ==
    /\ TemporalChecked =>
          /\ (temporal_call.result # NoSuggestion) <=>
                 TriggerPhraseOccurs(temporal_call.surfaces_when,
                                     temporal_call.current_context)
          /\ TemporalResultShape
    /\ StandupResult

\* 'at standup meetings' against "Working on the database migration": the
\* token 'at' occurs in 'database', and no suggestion is returned
C20_Witness ==
    /\ TemporalChecked
    /\ temporal_call.surfaces_when = AtStandupMeetings
    /\ temporal_call.current_context = DatabaseMigration
    /\ TokenOccurs(temporal_call.surfaces_when, temporal_call.current_context)
    /\ temporal_call.result = NoSuggestion

(***************************************************************************)
(* normalize_label, canonicalize_concepts, canonicalize_surfaces_when      *)
(* (src/src/utils/curation.py)                                             *)
(* An accented letter is one character, written here by its name.          *)
(***************************************************************************)
AccentedLetters == <<"e-acute", "E-acute", "u-umlaut">>
BaseLetters == <<"e", "E", "u">>

\* _strip_accents: NFKD, then drop the combining marks
strip_accents(text) ==
    [i \in 1..Len(text) |->
        IF \E k \in 1..Len(AccentedLetters) : AccentedLetters[k] = text[i]
        THEN BaseLetters[CHOOSE k \in 1..Len(AccentedLetters) :
                             AccentedLetters[k] = text[i]]
        ELSE text[i]]

\* collapse_ws: " ".join(text.split())
collapse_ws(text) == str_join(str_split(text))

Digits == {"0", "1", "2", "3", "4", "5", "6", "7", "8", "9"}
\* the characters the pattern [^a-z0-9_\-\s] leaves alone
LabelChars == Elems(LowerCase) \cup Digits \cup {"_", "-"} \cup Whitespace

\* re.sub(r"[^a-z0-9_\-\s]+", " ", text): every run of other characters
\* becomes one space
RECURSIVE sub_other_chars(_, _)
sub_other_chars(text, in_run) ==
    IF text = <<>> THEN <<>>
    ELSE IF Head(text) \in LabelChars
    THEN <<Head(text)>> \o sub_other_chars(Tail(text), FALSE)
    ELSE (IF in_run THEN <<>> ELSE <<" ">>)
         \o sub_other_chars(Tail(text), TRUE)

\* Mutant: the label is not casefolded.
normalize_label_cased(text) ==
    collapse_ws(sub_other_chars(collapse_ws(strip_accents(text)), FALSE))

normalize_label(text) ==
    collapse_ws(
        sub_other_chars(collapse_ws(str_lower(strip_accents(text))), FALSE))

\* _STOP_WORDS, the members of at most four letters that begin with a, i, t
\* or u (the label samples produce no other)
STOP_WORDS == {<<"a">>, <<"a", "n">>, <<"t", "h", "e">>, <<"i", "s">>, <<"a", "r", "e">>, <<"t", "o">>, <<"i", "n">>,
               <<"a", "t">>, <<"a", "s">>, <<"i", "n", "t", "o">>, <<"t", "h", "e", "n">>, <<"a", "l", "l">>, <<"t", "o", "o">>,
               <<"i">>, <<"i", "t">>, <<"i", "t", "s">>, <<"t", "h", "e", "y">>, <<"t", "h", "e", "m">>, <<"t", "h", "i", "s">>,
               <<"t", "h", "a", "t">>, <<"a", "m">>, <<"a", "n", "d">>, <<"i", "f">>, <<"u", "s", "e">>, <<"u", "s", "e", "d">>,
               <<"h", "o", "w">>}

\* _DEFAULT_CONCEPT_ALIASES = {}
DEFAULT_CONCEPT_ALIASES == [label \in {} |-> <<>>]

\* aliases.get(label, label)
alias_get(aliases, label) ==
    IF label \in DOMAIN aliases THEN aliases[label] ELSE label

\* isinstance(raw, str)
IsStr(raw) == raw # NoneStr

\* Mutant: the length test looks at the raw label, not at the normalized one.
RECURSIVE concepts_loop_raw_length(_, _, _, _)
concepts_loop_raw_length(concepts, aliases, max_concepts, out) ==
    IF concepts = <<>> THEN out
    ELSE
      LET raw == Head(concepts)
          rest == Tail(concepts)
          first == IF IsStr(raw) THEN normalize_label(raw) ELSE <<>>
          label == normalize_label(alias_get(aliases, first))
          skip == \/ ~IsStr(raw)
                  \/ first = <<>>
                  \/ label \in STOP_WORDS
                  \/ Len(raw) < 2
                  \/ label \in Elems(out)
      IN IF skip
         THEN concepts_loop_raw_length(rest, aliases, max_concepts, out)
         ELSE IF Len(out) + 1 >= max_concepts THEN Append(out, label)
         ELSE concepts_loop_raw_length(rest, aliases, max_concepts,
                                       Append(out, label))

\* canonicalize_concepts, lines 147-165: one turn of the loop per label
RECURSIVE concepts_loop(_, _, _, _)
concepts_loop(concepts, aliases, max_concepts, out) ==
    IF concepts = <<>> THEN out
    ELSE
      LET raw == Head(concepts)
          rest == Tail(concepts)
          first == IF IsStr(raw) THEN normalize_label(raw) ELSE <<>>
          label == normalize_label(alias_get(aliases, first))
          skip == \/ ~IsStr(raw)
                  \/ first = <<>>
                  \/ label \in STOP_WORDS
                  \/ Len(label) < 2
                  \/ label \in Elems(out)
      IN IF skip THEN concepts_loop(rest, aliases, max_concepts, out)
         ELSE IF Len(out) + 1 >= max_concepts THEN Append(out, label)
         ELSE concepts_loop(rest, aliases, max_concepts, Append(out, label))

canonicalize_concepts(concepts, aliases, max_concepts) ==
    concepts_loop(concepts, aliases, max_concepts, <<>>)

\* lines 190-196: the aliases applied token by token
RECURSIVE alias_tokens(_, _)
alias_tokens(toks, aliases) ==
    IF toks = <<>> THEN <<>>
    ELSE LET tok_norm == normalize_label(Head(toks))
             resolved == normalize_label(alias_get(aliases, tok_norm))
         IN (IF resolved # <<>> THEN <<resolved>> ELSE <<>>)
            \o alias_tokens(Tail(toks), aliases)

\* canonicalize_surfaces_when, lines 182-203
RECURSIVE surfaces_loop(_, _, _, _)
surfaces_loop(surfaces_when, aliases, max_surfaces, out) ==
    IF surfaces_when = <<>> THEN out
    ELSE
      LET raw == Head(surfaces_when)
          rest == Tail(surfaces_when)
          first == IF IsStr(raw) THEN normalize_label(raw) ELSE <<>>
          phrase == str_join(alias_tokens(str_split(first), aliases))
          skip == \/ ~IsStr(raw)
                  \/ first = <<>>
                  \/ phrase = <<>>
                  \/ phrase \in Elems(out)
      IN IF skip THEN surfaces_loop(rest, aliases, max_surfaces, out)
         ELSE IF Len(out) + 1 >= max_surfaces THEN Append(out, phrase)
         ELSE surfaces_loop(rest, aliases, max_surfaces, Append(out, phrase))

canonicalize_surfaces_when(surfaces_when, aliases, max_surfaces) ==
    surfaces_loop(surfaces_when, aliases, max_surfaces, <<>>)

\* default of max_concepts
DefaultMaxConcepts == 5
\* default of max_surfaces
DefaultMaxSurfaces == 12

\* number of labels in a list given to a canonicalization
MaxLabels == 3

LabelSamples ==
    { <<"V", "e", "c", "t", "o", "r", " ", "D", "B">>, <<"v", "e", "c", "t", "o", "r", " ", " ", "d", "b">>, <<"R", ">", "D", ">", "T">>,
      <<"C", "a", "f", "e-acute">>, <<"a", "t">>, <<"C", "+", "+">>, NoneStr }

canonicalize(fn, labels, max) ==
    IF fn = "canonicalize_concepts"
    THEN canonicalize_concepts(labels, DEFAULT_CONCEPT_ALIASES, max)
    ELSE canonicalize_surfaces_when(labels, DEFAULT_CONCEPT_ALIASES, max)

CanonInit == CanonIdle

\* canonicalize_concepts(labels) or canonicalize_surfaces_when(labels), and
\* the same function applied to what it returned
Canonicalize ==
    /\ canon_fn = None
    /\ \E n \in 0..MaxLabels : \E labels \in [1..n -> LabelSamples] :
       \E fn \in {"canonicalize_concepts", "canonicalize_surfaces_when"},
          small \in BOOLEAN :
          LET max == IF small THEN 2
                     ELSE IF fn = "canonicalize_concepts"
                          THEN DefaultMaxConcepts ELSE DefaultMaxSurfaces
              once == canonicalize(fn, labels, max)
          IN /\ canon_fn' = fn
             /\ canon_input' = labels
             /\ canon_max' = max
             /\ canon_once' = once
             /\ canon_twice' = canonicalize(fn, once, max)
    /\ UNCHANGED <<coreVars, weightVars, proactiveVars, constellationVars,
                   finalVars>>

CanonNext == Canonicalize
InitCanon ==
    CoreIdle /\ WeightIdle /\ ProactiveIdle /\ CanonInit /\ ConstellationIdle /\ FinalIdle
SpecCanon == InitCanon /\ [][CanonNext]_vars

\* C15 (canonicalization is idempotent): canonicalize_concepts applied to its
\* own output returns that output unchanged, and so does
\* canonicalize_surfaces_when, with the alias map in use.
C15_CanonIdempotent ==
    canon_fn # None => canon_twice = canon_once

\* three labels of which the first call rewrites one, drops one, and stops
\* at the limit of two
C15_Witness ==
    /\ canon_fn = "canonicalize_concepts"
    /\ canon_max = 2
    /\ canon_input = <<<<"C", "+", "+">>, <<"R", ">", "D", ">", "T">>, <<"C", "a", "f", "e-acute">> >>
    /\ canon_once = <<<<"r", " ", "d", " ", "t">>, <<"c", "a", "f", "e">>>>

(***************************************************************************)
(* CognitiveRetriever.build_constellation (src/src/core/retrieval.py)      *)
(* A candidate carries the fields the assembly reads: id, concept_score    *)
(* (thousandths), composite_score (units of 10^-5) and role.               *)
(***************************************************************************)
Candidate(id, concept_score, composite_score) ==
    [id |-> id, concept_score |-> concept_score,
     composite_score |-> composite_score, role |-> "candidate"]

\* dict.get(key, []) as a set
GetIds(map, key) == IF key \in DOMAIN map THEN map[key] ELSE {}

\* the candidates of a list that were given a role, in list order
RECURSIVE WithRole(_, _)
WithRole(cands, role) ==
    IF cands = <<>> THEN <<>>
    ELSE (IF Head(cands).role = role THEN <<Head(cands)>> ELSE <<>>)
         \o WithRole(Tail(cands), role)

Ids(cands) == [i \in 1..Len(cands) |-> cands[i].id]

\* _generate_synthesis: one part per role that has members
generate_synthesis(c) ==
    LET parts ==
            (IF c.primary # NoPrimary
             THEN << <<"Primary", <<c.primary.id>> >> >> ELSE <<>>)
            \o (IF c.supporting # <<>>
                THEN << <<"Supported by", Ids(Take(c.supporting, 2))>> >>
                ELSE <<>>)
            \o (IF c.contradicting # <<>>
                THEN << <<"Note: Conflicting info in",
                          Ids(Take(c.contradicting, 2))>> >>
                ELSE <<>>)
            \o (IF c.context # <<>>
                THEN << <<"Related", Ids(Take(c.context, 2))>> >>
                ELSE <<>>)
    IN IF parts = <<>>
       THEN [text |-> "No synthesis available.", parts |-> <<>>]
       ELSE [text |-> "joined", parts |-> parts]

\* Mutant: shared concepts are looked at before the support map.
assign_role_context_first(cand, primary_contradicts, primary_supports) ==
    IF cand.id \in primary_contradicts THEN "contradicting"
    ELSE IF cand.concept_score > 300 THEN "context"
    ELSE IF cand.id \in primary_supports THEN "supporting"
    ELSE IF cand.composite_score > 50000 THEN "supporting"
    ELSE cand.role

\* lines 440-451: the role the loop gives a candidate
assign_role(cand, primary_contradicts, primary_supports) ==
    IF cand.id \in primary_contradicts THEN "contradicting"
    ELSE IF cand.id \in primary_supports THEN "supporting"
    ELSE IF cand.concept_score > 300 THEN "context"
    ELSE IF cand.composite_score > 50000 THEN "supporting"
    ELSE cand.role

\* lines 429-451: the candidates with their roles set
assign_roles(cands, contra, supp) ==
    LET primary_contradicts == GetIds(contra, cands[1].id)
        primary_supports == GetIds(supp, cands[1].id)
    IN [i \in 1..Len(cands) |->
           IF i = 1 THEN [cands[i] EXCEPT !.role = "primary"]
           ELSE IF i <= 10
           THEN [cands[i] EXCEPT !.role =
                    assign_role(cands[i], primary_contradicts,
                                primary_supports)]
           ELSE cands[i]]

\* Mutant: the role lists are not cut to their limits.
build_constellation_uncapped(cands, contra, supp) ==
    IF cands = <<>>
    THEN [candidates |-> cands,
          constellation |->
              [EmptyConstellation EXCEPT
                  !.synthesis = [text |-> "No relevant memories found.",
                                 parts |-> <<>>]]]
    ELSE LET roled == assign_roles(cands, contra, supp)
             others == SubSeq(roled, 2, Min(10, Len(roled)))
             c == [primary |-> roled[1],
                   supporting |-> WithRole(others, "supporting"),
                   contradicting |-> WithRole(others, "contradicting"),
                   context |-> WithRole(others, "context"),
                   synthesis |-> [text |-> "", parts |-> <<>>]]
         IN [candidates |-> roled,
             constellation |-> [c EXCEPT !.synthesis = generate_synthesis(c)]]

\* build_constellation: the candidates as the call leaves them, and the
\* constellation returned.  None for a map is the empty map.
build_constellation(cands, contra, supp) ==
    IF cands = <<>>
    THEN [candidates |-> cands,
          constellation |->
              [EmptyConstellation EXCEPT
                  !.synthesis = [text |-> "No relevant memories found.",
                                 parts |-> <<>>]]]
    ELSE LET roled == assign_roles(cands, contra, supp)
             others == SubSeq(roled, 2, Min(10, Len(roled)))
             c == [primary |-> roled[1],
                   supporting |-> Take(WithRole(others, "supporting"), 3),
                   contradicting |-> Take(WithRole(others, "contradicting"), 2),
                   context |-> Take(WithRole(others, "context"), 2),
                   synthesis |-> [text |-> "", parts |-> <<>>]]
         IN [candidates |-> roled,
             constellation |-> [c EXCEPT !.synthesis = generate_synthesis(c)]]

\* number of candidates handed to build_constellation
MaxCandidates == 11

\* composite scores along a candidate list: falling through 0.5, all high,
\* and rising (a list that is not sorted)
ScoreProfiles == {"falling", "high", "rising"}
ProfileScore(profile, i) ==
    CASE profile = "falling" -> 70000 - 5000 * (i - 1)
      [] profile = "high" -> 100000 - 1000 * (i - 1)
      [] OTHER -> 30000 + 5000 * (i - 1)
\* concept scores along a candidate list repeat a pattern of two
ConceptPatterns == [1..2 -> {0, 300, 400}]
CandidateList(n, profile, pattern) ==
    [i \in 1..n |->
        Candidate(i, pattern[((i - 1) % 2) + 1], ProfileScore(profile, i))]
ContradictionSamples ==
    { EmptyMap, (1 :> {2, 3, 4}), (1 :> {3, 11}), (2 :> {3}) }
SupportSamples ==
    { EmptyMap, (1 :> {2, 3}), (1 :> {3, 4, 5, 6, 11}) }

ConstellationInit == ConstellationIdle

\* one call build_constellation(candidates, query, contradictions, supports)
\* with its arguments drawn from the given sets
BuildFrom(sizes, profiles, patterns, contras, supps) ==
    /\ \E n \in sizes, profile \in profiles, pattern \in patterns,
          contra \in contras, supp \in supps :
          LET r == build_constellation(CandidateList(n, profile, pattern),
                                       contra, supp)
          IN /\ candidates' = r.candidates
             /\ constellation' = r.constellation
             /\ contradictions' = contra
             /\ supports' = supp
    /\ built' = TRUE

BuildConstellation ==
    /\ ~built
    /\ BuildFrom(0..MaxCandidates, ScoreProfiles, ConceptPatterns,
                 ContradictionSamples, SupportSamples)
    /\ UNCHANGED <<coreVars, weightVars, proactiveVars, canonVars,
                   finalVars>>

ConstellationNext == BuildConstellation
InitConstellation ==
    CoreIdle /\ WeightIdle /\ ProactiveIdle /\ CanonIdle /\ ConstellationInit /\ FinalIdle
SpecConstellation == InitConstellation /\ [][ConstellationNext]_vars

(***************************************************************************)
(* Claims about the constellation                                          *)
(***************************************************************************)
MemberIds(list) == {list[i].id : i \in 1..Len(list)}
PrimaryIds == IF constellation.primary = NoPrimary THEN {}
              ELSE {constellation.primary.id}

RoleCount(role) ==
    Cardinality({i \in 1..Len(candidates) : candidates[i].role = role})

ExpectedRole(cand) ==
    LET primary_id == candidates[1].id
    IN IF cand.id \in GetIds(contradictions, primary_id) THEN "contradicting"
       ELSE IF cand.id \in GetIds(supports, primary_id) THEN "supporting"
       ELSE IF cand.concept_score > 300 THEN "context"
       ELSE IF cand.composite_score > 50000 THEN "supporting"
       ELSE "candidate"

AllMembers ==
    Elems(constellation.supporting) \cup Elems(constellation.contradicting)
    \cup Elems(constellation.context)

SortedByComposite ==
    \A i \in 1..(Len(candidates) - 1) :
        candidates[i].composite_score >= candidates[i + 1].composite_score

\* C18 (constellation role assignment): candidate 0 is the primary; each of
\* candidates 1..9 gets its role by the first matching rule (contradicting,
\* supporting by the support map, context if concept_score > 0.3, supporting
\* if composite_score > 0.5, else left out); candidates at index 10 or later
\* are never included; for an input sorted by composite score the primary has
\* the highest composite score of all members.
C18_RoleAssignment ==
    (built /\ candidates # <<>>) =>
        /\ constellation.primary = candidates[1]
        /\ candidates[1].role = "primary"
        /\ \A i \in 2..Len(candidates) :
              IF i <= 10
              THEN /\ candidates[i].role = ExpectedRole(candidates[i])
                   /\ candidates[i] \in AllMembers =>
                         candidates[i].role # "candidate"
              ELSE /\ candidates[i].role = "candidate"
                   /\ candidates[i] \notin AllMembers
        /\ \A m \in AllMembers :
              /\ m \in Elems(candidates)
              /\ m \in Elems(constellation.supporting) <=>
                     (m.role = "supporting" /\ m \in AllMembers)
              /\ m \in Elems(constellation.contradicting) <=>
                     (m.role = "contradicting" /\ m \in AllMembers)
        /\ SortedByComposite =>
              \A m \in AllMembers :
                  constellation.primary.composite_score >= m.composite_score

\* eleven candidates: the eleventh is in the support map and stays out, one
\* is in both maps, one has shared concepts and is in the support map
C18_Witness ==
    /\ built
    /\ Len(candidates) = 11
    /\ candidates[11].id \in GetIds(supports, candidates[1].id)
    /\ candidates[11].role = "candidate"
    /\ \E i \in 2..10 :
          /\ candidates[i].id \in GetIds(supports, candidates[1].id)
          /\ candidates[i].id \in GetIds(contradictions, candidates[1].id)
          /\ candidates[i].role = "contradicting"
    /\ \E i \in 2..10 :
          /\ candidates[i].id \in GetIds(supports, candidates[1].id)
          /\ candidates[i].concept_score > 300
          /\ candidates[i].role = "supporting"

(***************************************************************************)
(* A retriever over its lifetime: CognitiveRetriever() starts with an      *)
(* empty co-activation matrix (retrieval.py:148); candidates are scored    *)
(* and constellations built against it, and each retrieval then records    *)
(* its top-K in the matrix.                                                *)
(***************************************************************************)
SessionIds == {"m1", "m2", "m3"}
\* a pair counter is not raised beyond this
MaxCoactivation == 6

\* co_activation_matrix.get(a, {}).get(b, 0)
Counter(matrix, a, b) ==
    IF a \in DOMAIN matrix /\ b \in DOMAIN matrix[a] THEN matrix[a][b] ELSE 0

\* Update co-activation: for the top-K returned, every ordered pair's
\* counter is incremented by 1.
update_coactivation(matrix, top_k) ==
    IF Cardinality(top_k) < 2 THEN matrix
    ELSE [a \in DOMAIN matrix \cup top_k |->
            [b \in (IF a \in DOMAIN matrix THEN DOMAIN matrix[a] ELSE {})
                   \cup (IF a \in top_k THEN top_k \ {a} ELSE {}) |->
                IF a \in top_k /\ b \in top_k
                THEN Counter(matrix, a, b) + 1
                ELSE Counter(matrix, a, b)]]

SessionCandidates ==
    { [NewCandidate({"python"}, "work", 5, 10, 90, 14, 333) EXCEPT !.id = id] :
         id \in {"m1", "m2"} }
SessionRecent == { <<>>, <<"m1">>, <<"m2", "m3">> }
SessionQuery == [concepts |-> {"python"}, inferred_domain |-> "work"]

\* score_candidate(candidate, query, recent_memory_ids, include_explanation)
\* for one of the session's candidates
SessionScoreCandidate ==
    /\ \E c0 \in SessionCandidates, recent \in SessionRecent,
          include_explanation \in BOOLEAN :
          LET c == ScoredCandidate(c0, SessionQuery, recent,
                                   co_activation_matrix)
              temporal_score == compute_temporal_score(c0.last_accessed,
                                                       c0.created_at)
          IN /\ candidate' = c
             /\ query' = SessionQuery
             /\ recent_memory_ids' = recent
             /\ explanation' = IF include_explanation
                                THEN build_explanation(c, SessionQuery,
                                                       temporal_score)
                                ELSE NoExplanation
    /\ scored' = TRUE
    /\ UNCHANGED co_activation_matrix
    /\ UNCHANGED <<ingestVars, graphVars, healthVars, conflictVars,
                   laterVars, finalVars>>

SessionBuildConstellation ==
    /\ BuildFrom({0, 3}, {"falling"}, {<<400, 0>>}, {(1 :> {3})}, {EmptyMap})
    /\ UNCHANGED <<coreVars, weightVars, proactiveVars, canonVars,
                   finalVars>>

\* the retrieval's top-K is recorded
UpdateCoactivation ==
    /\ \E top_k \in SUBSET SessionIds :
          /\ top_k # {}
          /\ \A a, b \in top_k :
                Counter(co_activation_matrix, a, b) < MaxCoactivation
          /\ co_activation_matrix' =
                update_coactivation(co_activation_matrix, top_k)
    /\ UNCHANGED <<candidate, query, recent_memory_ids, explanation, scored>>
    /\ UNCHANGED <<ingestVars, graphVars, healthVars, conflictVars,
                   laterVars, finalVars>>

SessionNext ==
    \/ SessionScoreCandidate
    \/ SessionBuildConstellation
    \/ UpdateCoactivation
InitSession == CoreIdle /\ LaterIdle /\ FinalIdle
SpecSession == InitSession /\ [][SessionNext]_vars

(***************************************************************************)
(* Claims about the co-activation matrix                                   *)
(***************************************************************************)
\* C14 (co-activation monotonicity): in every step no pair counter
\* decreases; a step that scores a candidate or builds a constellation
\* leaves the matrix as it was; and the coactivation signal
\* min(1, sum of counters over recent ids / 10) of every memory for every
\* recent list does not decrease from one matrix to the next.
C14_CoactivationMonotone ==
    [][ /\ \A a, b \in SessionIds :
              Counter(co_activation_matrix', a, b)
                 >= Counter(co_activation_matrix, a, b)
        /\ (<<candidate, explanation, scored, constellationVars>>'
               # <<candidate, explanation, scored, constellationVars>>)
              => co_activation_matrix' = co_activation_matrix
        /\ \A id \in SessionIds, recent \in SessionRecent :
              compute_coactivation(co_activation_matrix', id, recent)
                 >= compute_coactivation(co_activation_matrix, id, recent)
      ]_vars

\* counters have grown, and a candidate scored against the grown matrix has a
\* saturated coactivation signal while a constellation has been built
C14_Witness ==
    /\ Counter(co_activation_matrix, "m1", "m2") = MaxCoactivation
    /\ Counter(co_activation_matrix, "m1", "m3") = MaxCoactivation
    /\ Counter(co_activation_matrix, "m2", "m3") < MaxCoactivation
    /\ scored
    /\ candidate.id = "m1"
    /\ recent_memory_ids = <<"m2", "m3">>
    /\ candidate.coactivation_score = 1000
    /\ built
    /\ constellation.primary # NoPrimary

(***************************************************************************)
(* ResultDeduplicator (src/src/core/deduplication.py)                      *)
(* A SearchCandidate carries text, score (thousandths), source, embedding, *)
(* memory_id and, of its metadata, the keys the merge writes: sources and  *)
(* merged_from.  An embedding is a vector of integers; None is NoEmbedding.*)
(***************************************************************************)
NoEmbedding == <<None>>
NoMetadata == [sources |-> {}, merged_from |-> 0]
SearchCandidate(text, score, source, embedding) ==
    [text |-> text, score |-> score, source |-> source,
     metadata |-> NoMetadata, embedding |-> embedding, memory_id |-> text]

Dot(a, b) == SeqSum([i \in 1..Len(a) |-> a[i] * b[i]], [i \in 1..Len(a) |-> i])

\* _cosine_similarity(embedding1, embedding2) >= threshold, the threshold in
\* hundredths: the similarity is 0 for an empty vector, vectors of different
\* length or a zero vector, and dot / (|e1| |e2|) clamped to [0, 1]
\* otherwise; the comparison is made on the squares.
cosine_similarity_at_least(embedding1, embedding2, threshold) ==
    IF \/ embedding1 = <<>> \/ embedding2 = <<>>
       \/ Len(embedding1) # Len(embedding2)
       \/ Dot(embedding1, embedding1) = 0 \/ Dot(embedding2, embedding2) = 0
    THEN 0 >= threshold
    ELSE LET dot_product == Dot(embedding1, embedding2)
         IN \/ 0 >= threshold
            \/ /\ dot_product > 0
               /\ threshold <= 100
               /\ dot_product * dot_product * 10000
                    >= threshold * threshold * Dot(embedding1, embedding1)
                         * Dot(embedding2, embedding2)

\* embedding_service.generate_embedding(text)
generate_embedding(text) ==
    CASE text = "a" -> <<10, 0>>
      [] text = "b" -> <<10, 3>>
      [] text = "c" -> <<10, 6>>
      [] text = "d" -> <<0, 10>>
      [] OTHER -> <<0, 0>>

\* _ensure_embeddings
ensure_embeddings(cands) ==
    [i \in 1..Len(cands) |->
        IF cands[i].embedding = NoEmbedding
        THEN [cands[i] EXCEPT !.embedding = generate_embedding(cands[i].text)]
        ELSE cands[i]]

\* _find_duplicate_groups, from index i on with the indices visited so far
RECURSIVE find_groups_from(_, _, _, _)
find_groups_from(i, visited, cands, threshold) ==
    IF i > Len(cands) THEN <<>>
    ELSE IF i \in visited
    THEN find_groups_from(i + 1, visited, cands, threshold)
    ELSE LET group ==
                 {i} \cup
                 { j \in (i + 1)..Len(cands) :
                     /\ j \notin visited
                     /\ cands[i].embedding # NoEmbedding
                     /\ cands[j].embedding # NoEmbedding
                     /\ cosine_similarity_at_least(cands[i].embedding,
                                                   cands[j].embedding,
                                                   threshold) }
         IN <<group>> \o find_groups_from(i + 1, visited \cup group, cands,
                                          threshold)

find_duplicate_groups(cands, threshold) ==
    find_groups_from(1, {}, cands, threshold)

\* the members of a group as a list, in index order
RECURSIVE GroupList(_, _)
GroupList(group, cands) ==
    IF group = {} THEN <<>>
    ELSE LET i == CHOOSE x \in group : \A y \in group : x <= y
         IN <<cands[i]>> \o GroupList(group \ {i}, cands)

\* candidates.sort(key=score, reverse=True)[0]: the first member with the
\* highest score
BestOf(list) ==
    list[CHOOSE i \in 1..Len(list) :
            /\ \A j \in 1..Len(list) : list[j].score <= list[i].score
            /\ \A j \in 1..(i - 1) : list[j].score < list[i].score]

\* Mutant: the first member of the group is kept.
merge_candidates_keep_first(list) ==
    LET best == list[1]
        sources == {list[i].source : i \in 1..Len(list)}
    IN [text |-> best.text, score |-> best.score,
        source |-> IF Cardinality(sources) > 1 THEN "hybrid" ELSE best.source,
        metadata |-> [sources |-> sources, merged_from |-> Len(list)],
        embedding |-> best.embedding, memory_id |-> best.memory_id]

\* _merge_candidates
merge_candidates(list) ==
    LET best == BestOf(list)
        sources == {list[i].source : i \in 1..Len(list)}
    IN [text |-> best.text, score |-> best.score,
        source |-> IF Cardinality(sources) > 1 THEN "hybrid" ELSE best.source,
        metadata |-> [sources |-> sources, merged_from |-> Len(list)],
        embedding |-> best.embedding, memory_id |-> best.memory_id]

\* _merge_groups
merge_groups(groups, cands) ==
    [k \in 1..Len(groups) |->
        IF Cardinality(groups[k]) = 1
        THEN cands[CHOOSE idx \in groups[k] : TRUE]
        ELSE merge_candidates(GroupList(groups[k], cands))]

\* deduplicate: the groups found and the list returned
deduplicate(cands, threshold) ==
    IF Len(cands) <= 1 THEN [groups |-> <<>>, result |-> cands]
    ELSE LET embedded == ensure_embeddings(cands)
             duplicate_groups == find_duplicate_groups(embedded, threshold)
         IN [groups |-> duplicate_groups,
             result |-> merge_groups(duplicate_groups, embedded)]

\* length of the candidate list given to deduplicate
MaxDedup == 3
DedupSamples ==
    { SearchCandidate("a", 500, "conversation", <<10, 0>>),
      SearchCandidate("b", 900, "semantic", <<10, 3>>),
      SearchCandidate("c", 700, "semantic", <<10, 6>>),
      SearchCandidate("d", 900, "graph", <<0, 10>>),
      SearchCandidate("a", 500, "semantic", NoEmbedding),
      SearchCandidate("b", 300, "semantic", <<10, 3>>),
      SearchCandidate("e", 400, "graph", <<0, 0>>) }
DedupThresholds == {95, 85}

DedupInit ==
    /\ \E n \in 0..MaxDedup : dd_candidates \in [1..n -> DedupSamples]
    /\ dd_threshold \in DedupThresholds
    /\ dd_groups = <<>>
    /\ dd_result = <<>>
    /\ dd_done = FALSE

\* ResultDeduplicator(threshold).deduplicate(candidates)
Deduplicate ==
    /\ ~dd_done
    /\ LET r == deduplicate(dd_candidates, dd_threshold)
       IN /\ dd_groups' = r.groups
          /\ dd_result' = r.result
    /\ dd_done' = TRUE
    /\ UNCHANGED <<dd_candidates, dd_threshold>>
    /\ UNCHANGED dedupFrame

DedupNext == Deduplicate
InitDedup == CoreIdle /\ LaterIdle /\ DedupInit /\ DedupOthersIdle
SpecDedup == InitDedup /\ [][DedupNext]_vars

(***************************************************************************)
(* Claims about deduplication                                              *)
(***************************************************************************)
MaxScore(group) ==
    CHOOSE s \in {dd_candidates[i].score : i \in group} :
        \A i \in group : dd_candidates[i].score <= s

\* C21 (deduplication keeps the best of each group): the groups partition
\* the input candidates, one candidate is returned per group, it is a member
\* with the highest score of the group, and for a group of more than one
\* member its metadata sources is the set of the members' sources,
\* merged_from the group size and its source 'hybrid' when the members come
\* from more than one source.
C21_DedupKeepsBest ==
    dd_done =>
        IF Len(dd_candidates) <= 1 THEN dd_result = dd_candidates
        ELSE
        /\ UNION {dd_groups[k] : k \in 1..Len(dd_groups)}
              = 1..Len(dd_candidates)
        /\ \A k, l \in 1..Len(dd_groups) :
              k # l => dd_groups[k] \cap dd_groups[l] = {}
        /\ Len(dd_result) = Len(dd_groups)
        /\ \A k \in 1..Len(dd_groups) :
              LET g == dd_groups[k]
                  r == dd_result[k]
                  member_sources == {dd_candidates[i].source : i \in g}
              IN /\ g # {}
                 /\ r.score = MaxScore(g)
                 /\ \E i \in g : /\ dd_candidates[i].score = r.score
                                 /\ dd_candidates[i].text = r.text
                                 /\ dd_candidates[i].memory_id = r.memory_id
                 /\ Cardinality(g) > 1 =>
                       /\ r.metadata.sources = member_sources
                       /\ r.metadata.merged_from = Cardinality(g)
                       /\ Cardinality(member_sources) > 1
                             => r.source = "hybrid"
                 /\ Cardinality(g) = 1 =>
                       /\ r.source = dd_candidates[CHOOSE i \in g : TRUE].source
                       /\ r.metadata = NoMetadata

\* a group of two from two sources whose second member scores higher, beside
\* a group of one
C21_Witness ==
    /\ dd_done
    /\ Len(dd_groups) = 2
    /\ dd_groups[1] = {1, 2}
    /\ dd_candidates[2].score > dd_candidates[1].score
    /\ dd_candidates[1].source # dd_candidates[2].source
    /\ dd_result[1].source = "hybrid"
    /\ dd_result[1].text = dd_candidates[2].text

\* C22 (no near-duplicates survive): for a candidate list whose embeddings
\* are present, no two distinct candidates returned have cosine similarity
\* greater than or equal to the threshold.
C22_NoNearDuplicates ==
    (/\ dd_done
     /\ \A i \in 1..Len(dd_candidates) :
           dd_candidates[i].embedding # NoEmbedding) =>
        \A k, l \in 1..Len(dd_result) :
            k # l => ~cosine_similarity_at_least(dd_result[k].embedding,
                                                 dd_result[l].embedding,
                                                 dd_threshold)

(***************************************************************************)
(* classify_memory / calculate_importance (src/src/core/classifier.py)     *)
(* A content is the sequence of its words, separated by single spaces; a   *)
(* word is a run of letters and digits.  A regular expression of the       *)
(* classifier is a set of alternative phrases between word boundaries,     *)
(* possibly anchored at the start, possibly followed after any gap by a   *)
(* second set of phrases.                                                  *)
(***************************************************************************)
W(words) == {<<w>> : w \in words}
P2(first, words) == {<<first, w>> : w \in words}
Pat(phrases) == [anchored |-> FALSE, first |-> phrases, then |-> {}]
Anchored(phrases) == [anchored |-> TRUE, first |-> phrases, then |-> {}]
Gap(phrases, later) == [anchored |-> FALSE, first |-> phrases, then |-> later]

OccursAt(phrase, tokens, i) ==
    /\ i + Len(phrase) - 1 <= Len(tokens)
    /\ \A k \in 1..Len(phrase) : tokens[i + k - 1] = phrase[k]

\* re.search(pattern, content)
re_search(pat, tokens) ==
    \E p \in pat.first :
        \E i \in (IF pat.anchored THEN {1} ELSE 1..Len(tokens)) :
            /\ OccursAt(p, tokens, i)
            /\ pat.then # {} =>
                  \E q \in pat.then :
                      \E j \in (i + Len(p))..Len(tokens) :
                          OccursAt(q, tokens, j)

search_any(pats, tokens) == \E pat \in pats : re_search(pat, tokens)

\* str.lower() of a word: the words written in capitals
lower_word(w) ==
    CASE w = "NEVER" -> "never"
      [] w = "ALWAYS" -> "always"
      [] w = "MUST" -> "must"
      [] w = "CRITICAL" -> "critical"
      [] w = "LAW" -> "law"
      [] w = "RULE" -> "rule"
      [] w = "PROTOCOL" -> "protocol"
      [] OTHER -> w
content_lower(content) == [i \in 1..Len(content) |-> lower_word(content[i])]

\* line 16
RulePattern ==
    Pat(W({"NEVER", "ALWAYS", "MUST", "CRITICAL", "LAW", "RULE", "PROTOCOL"}))
\* lines 25-39
IdentityPatterns ==
    { Anchored(P2("i", {"am", "live", "speak", "work", "have", "was",
                        "studied", "grew", "specialize"})
               \cup {<<"i", "come", "from">>}),
      Pat(P2("my", {"name", "profession", "job", "role", "background",
                    "expertise", "experience", "skill"})),
      Pat({<<"i", "am", w>> : w \in {"a", "an", "the", "from", "based",
                                     "located", "specializing"}}),
      Pat(P2("user", {"is", "prefers", "lives", "works", "speaks"})),
      Gap(W({"jaime", "jay"}), W({"is", "prefers", "lives"})),
      Pat({<<a, b>> : a \in {"senior", "junior", "lead", "principal", "staff"},
                      b \in {"developer", "engineer", "architect",
                             "designer"}}),
      Pat({<<w, "in">> : w \in {"specialize", "specializing", "specializes"}}) }
\* lines 42-51
PreferencePatterns ==
    { Pat(P2("i", {"like", "prefer", "hate", "love", "value", "enjoy",
                   "dislike", "appreciate", "want"})),
      Pat(W({"straightforward", "concise", "efficient", "minimal", "clean",
             "simple"})),
      Pat(W({"prefer", "prefers", "preference", "preferred"})),
      Pat(W({"favorite", "best", "ideal", "perfect"})),
      Pat(P2("no", {"apologies", "waste", "fluff", "bs"})) }
\* lines 54-59
ConstraintPatterns ==
    { Pat({<<"must", "not">>, <<"never">>, <<"always">>}),
      Gap({<<"do", "not">>}, W({"waste", "use", "spend"})),
      Pat(W({"limit", "restrict", "constraint", "boundary"})) }
\* lines 66-71
GoalPatterns ==
    { Pat({<<"want", "to">>, <<"need", "to">>, <<"goal">>, <<"objective">>,
           <<"plan", "to">>, <<"aiming">>, <<"achieve">>, <<"intend">>}),
      Pat(P2("will", {"be", "have", "create", "build", "implement"})),
      Pat({<<"todo">>, <<"task">>, <<"next", "step">>, <<"upcoming">>,
           <<"roadmap">>}) }
\* lines 74-77; don't and anti-pattern are words of their own here
AntiPatternPatterns ==
    { Pat({<<"don't">>, <<"do", "not">>, <<"avoid">>, <<"stop">>,
           <<"refrain">>, <<"prevent">>}),
      Pat({<<"bad", "practice">>, <<"anti-pattern">>, <<"mistake">>,
           <<"pitfall">>, <<"warning">>}) }
\* lines 84-89
FailurePatterns ==
    { Pat(W({"bug", "error", "fail", "problem", "issue", "crash", "break",
             "exception", "traceback"})),
      Gap(W({"fix", "debug", "resolve", "solved"}),
          W({"error", "bug", "issue", "problem"})),
      Pat({<<"root", "cause">>, <<"debugging">>, <<"troubleshoot">>}) }
\* lines 92-103
MethodPatterns ==
    { Pat(W({"technique", "protocol", "method", "process", "workflow",
             "framework", "pattern", "architecture"})),
      Gap(W({"project", "system", "service", "api", "database", "server"}),
          W({"uses", "requires", "implements"})),
      Gap(W({"using"}), W({"kafka", "docker", "kubernetes", "python", "react",
                           "kuzu", "chroma", "chromadb"})),
      Pat(W({"microservices", "distributed", "architecture", "infrastructure",
             "pipeline"})),
      Pat(P2("step", {"0", "1", "2", "3", "4", "5", "6", "7", "8", "9"})
          \cup {<<"first">>, <<"then">>, <<"finally">>, <<"after", "that">>}),
      Pat({<<"how", "to">>, <<"guide">>, <<"tutorial">>, <<"instructions">>}) }

Pair(layer, sublayer) == [layer |-> layer, sublayer |-> sublayer]

\* Mutant: the constraint patterns are tried before the preference patterns.
classify_memory_constraint_first(content) ==
    IF re_search(RulePattern, content) THEN Pair("intent", "rule")
    ELSE LET lower == content_lower(content)
         IN IF search_any(IdentityPatterns, lower)
            THEN Pair("self", "identity")
            ELSE IF search_any(ConstraintPatterns, lower)
            THEN Pair("self", "constraint")
            ELSE IF search_any(PreferencePatterns, lower)
            THEN Pair("self", "preference")
            ELSE IF search_any(GoalPatterns, lower)
            THEN Pair("intent", "goal")
            ELSE IF search_any(AntiPatternPatterns, lower)
            THEN Pair("intent", "anti-pattern")
            ELSE IF search_any(FailurePatterns, lower)
            THEN Pair("world", "failure")
            ELSE IF search_any(MethodPatterns, lower)
            THEN Pair("world", "method")
            ELSE Pair("world", "fact")

\* classify_memory
classify_memory(content) ==
    IF re_search(RulePattern, content) THEN Pair("intent", "rule")
    ELSE LET lower == content_lower(content)
         IN IF search_any(IdentityPatterns, lower)
            THEN Pair("self", "identity")
            ELSE IF search_any(PreferencePatterns, lower)
            THEN Pair("self", "preference")
            ELSE IF search_any(ConstraintPatterns, lower)
            THEN Pair("self", "constraint")
            ELSE IF search_any(GoalPatterns, lower)
            THEN Pair("intent", "goal")
            ELSE IF search_any(AntiPatternPatterns, lower)
            THEN Pair("intent", "anti-pattern")
            ELSE IF search_any(FailurePatterns, lower)
            THEN Pair("world", "failure")
            ELSE IF search_any(MethodPatterns, lower)
            THEN Pair("world", "method")
            ELSE Pair("world", "fact")

\* line 126
CriticalMarkers ==
    Pat(W({"CRITICAL", "NEVER", "ALWAYS", "MUST", "LAW", "RULE"}))
\* line 128
ImportantMarkers ==
    Pat(W({"important", "essential", "crucial", "key", "vital",
           "fundamental"}))

\* lines 131-156: the layer-based score
layer_score(score, lower, layer, sublayer) ==
    CASE layer = "self" /\ sublayer = "identity" -> Max(score, 8)
      [] layer = "self" /\ sublayer = "preference" -> Max(score, 7)
      [] layer = "self" /\ sublayer = "constraint" -> Max(score, 9)
      [] layer = "intent" /\ sublayer = "rule" -> Max(score, 9)
      [] layer = "intent" /\ sublayer = "goal" -> Max(score, 7)
      [] layer = "intent" /\ sublayer = "anti-pattern" -> Max(score, 8)
      [] layer = "world" /\ sublayer = "failure" ->
            IF re_search(Pat(W({"fix", "solution", "resolve", "solved"})), lower)
            THEN Max(score, 8) ELSE Max(score, 6)
      [] layer = "world" /\ sublayer = "method" -> Max(score, 6)
      [] OTHER -> score

\* lines 160-178: the content quality modifiers and the final clamp
quality_modifiers(score, content, lower) ==
    LET word_count == Len(content)
        s1 == IF word_count > 50 THEN Min(10, score + 1)
              ELSE IF word_count < 10 THEN Max(1, score - 1)
              ELSE score
        s2 == IF re_search(Pat(W({"implementation", "architecture",
                                  "algorithm", "optimization"})), lower)
              THEN Min(10, s1 + 1) ELSE s1
        s3 == IF re_search(Pat(W({"decided", "decision", "chose",
                                  "selected"})), lower)
              THEN Max(s2, 7) ELSE s2
        s4 == IF re_search(Pat({<<"api", "key">>, <<"password">>, <<"secret">>,
                                <<"config">>, <<"credential">>}), lower)
              THEN Max(s3, 8) ELSE s3
    IN Min(10, Max(1, s4))

\* Mutant: a critical marker scores 9.
calculate_importance_critical_nine(content, layer, sublayer) ==
    LET lower == content_lower(content)
        marked == IF re_search(CriticalMarkers, content) THEN 9
                  ELSE IF re_search(ImportantMarkers, lower) THEN Max(5, 8)
                  ELSE 5
    IN quality_modifiers(layer_score(marked, lower, layer, sublayer),
                         content, lower)

\* calculate_importance
calculate_importance(content, layer, sublayer) ==
    LET lower == content_lower(content)
        marked == IF re_search(CriticalMarkers, content) THEN 10
                  ELSE IF re_search(ImportantMarkers, lower) THEN Max(5, 8)
                  ELSE 5
    IN quality_modifiers(layer_score(marked, lower, layer, sublayer),
                         content, lower)

\* classify_memory_full
classify_memory_full(content) ==
    LET c == classify_memory(content)
    IN [layer |-> c.layer, sublayer |-> c.sublayer,
        importance |-> calculate_importance(content, c.layer, c.sublayer)]

\* number of chosen words at the head of a content
MaxContentWords == 2
ContentWords ==
    {"NEVER", "CRITICAL", "PROTOCOL", "never", "i", "am", "prefer", "goal",
     "avoid", "bug", "fix", "method", "important", "implementation",
     "decided", "secret"}
\* words that no pattern names, appended to make a content long
FillerLengths == {0, 8, 49}
Filler(n) == [i \in 1..n |-> "lorem"]

ClassifyInit ==
    /\ \E n \in 0..MaxContentWords, k \in FillerLengths :
          \E ws \in [1..n -> ContentWords] : cl_content = ws \o Filler(k)
    /\ cl_result = NoClassification

\* classify_memory_full(content)
ClassifyMemoryFull ==
    /\ cl_result = NoClassification
    /\ cl_result' = classify_memory_full(cl_content)
    /\ UNCHANGED cl_content
    /\ UNCHANGED classifyFrame

ClassifyNext == ClassifyMemoryFull
InitClassify == CoreIdle /\ LaterIdle /\ ClassifyInit /\ ClassifyOthersIdle
SpecClassify == InitClassify /\ [][ClassifyNext]_vars

(***************************************************************************)
(* Claims about classification                                             *)
(***************************************************************************)
Classified == cl_result # NoClassification
SchemaPairs ==
    { Pair("self", "identity"), Pair("self", "preference"),
      Pair("self", "constraint"), Pair("world", "fact"),
      Pair("world", "failure"), Pair("world", "method"),
      Pair("intent", "rule"), Pair("intent", "goal"),
      Pair("intent", "anti-pattern") }
ContainsWord(words) == \E i \in 1..Len(cl_content) : cl_content[i] \in words
\* the groups in the order of the claim, each with the pair it decides
GroupOrder ==
    << <<IdentityPatterns, Pair("self", "identity")>>,
       <<PreferencePatterns, Pair("self", "preference")>>,
       <<ConstraintPatterns, Pair("self", "constraint")>>,
       <<GoalPatterns, Pair("intent", "goal")>>,
       <<AntiPatternPatterns, Pair("intent", "anti-pattern")>>,
       <<FailurePatterns, Pair("world", "failure")>>,
       <<MethodPatterns, Pair("world", "method")>> >>
GroupMatches(k) == search_any(GroupOrder[k][1], content_lower(cl_content))
\* the pair the precedence gives when the content holds none of the words
\* that force intent.rule
ByPrecedence(pair) ==
    IF \E k \in 1..Len(GroupOrder) : GroupMatches(k)
    THEN \E k \in 1..Len(GroupOrder) :
            /\ GroupMatches(k)
            /\ \A l \in 1..(k - 1) : ~GroupMatches(l)
            /\ pair = GroupOrder[k][2]
    ELSE pair = Pair("world", "fact")
ResultPair == Pair(cl_result.layer, cl_result.sublayer)

\* C23 as stated: the words NEVER, ALWAYS, MUST, RULE and LAW, and only
\* they, force intent.rule; every other content is decided by the first
\* matching group.
C23_ClassificationPrecedence ==
    Classified =>
        /\ ResultPair \in SchemaPairs
        /\ IF ContainsWord({"NEVER", "ALWAYS", "MUST", "RULE", "LAW"})
           THEN ResultPair = Pair("intent", "rule")
           ELSE ByPrecedence(ResultPair)

\* C23 (classification precedence), amended: a content that contains one of
\* the upper-case words NEVER, ALWAYS, MUST, CRITICAL, LAW, RULE or PROTOCOL
\* is intent.rule whatever else matches; otherwise the first group with a
\* matching pattern decides, in the order SELF (identity, preference,
\* constraint), INTENT (goal, anti-pattern), WORLD (failure, method); a
\* content that matches no pattern is world.fact; the result is one of the
\* nine pairs of the schema.
C23_PrecedenceWithAllMarkers ==
    Classified =>
        /\ ResultPair \in SchemaPairs
        /\ IF ContainsWord({"NEVER", "ALWAYS", "MUST", "CRITICAL", "LAW",
                            "RULE", "PROTOCOL"})
           THEN ResultPair = Pair("intent", "rule")
           ELSE ByPrecedence(ResultPair)

\* a content whose lower-case form matches a preference and a constraint
\* pattern and no identity pattern is self.preference
C23_Witness ==
    /\ Classified
    /\ ~ContainsWord({"NEVER", "ALWAYS", "MUST", "CRITICAL", "LAW", "RULE",
                      "PROTOCOL"})
    /\ GroupMatches(2)
    /\ GroupMatches(3)
    /\ ResultPair = Pair("self", "preference")

\* C24 (importance range): the importance is an integer in 1..10, and at
\* least 9 for a content that contains NEVER, ALWAYS, MUST, RULE or LAW,
\* whatever its length and its other signals.
C24_ImportanceRange ==
    Classified =>
        /\ cl_result.importance \in 1..10
        /\ ContainsWord({"NEVER", "ALWAYS", "MUST", "RULE", "LAW"})
              => cl_result.importance >= 9

\* a short content with NEVER, which loses a point for its length
C24_Witness ==
    /\ Classified
    /\ ContainsWord({"NEVER"})
    /\ Len(cl_content) < 10
    /\ cl_result.importance = 9

(***************************************************************************)
(* extract_concepts / infer_surfaces_when (src/src/utils/curation.py)      *)
(* A word's score is kept as an integer: the code's score times 20 times   *)
(* the number of words of the content.                                     *)
(***************************************************************************)
TECH_TERMS ==
    { <<"a", "p", "i">>, <<"u", "i">>, <<"u", "x">>, <<"s", "q", "l">>, <<"c", "s", "s">>, <<"h", "t", "m", "l">>, <<"j", "s", "o", "n">>,
      <<"y", "a", "m", "l">>, <<"x", "m", "l">>, <<"h", "t", "t", "p">>, <<"h", "t", "t", "p", "s">>, <<"r", "e", "s", "t">>, <<"g", "r", "a", "p", "h", "q", "l">>,
      <<"o", "a", "u", "t", "h">>, <<"j", "w", "t">>, <<"a", "w", "s">>, <<"g", "c", "p">>, <<"a", "z", "u", "r", "e">>, <<"d", "o", "c", "k", "e", "r">>,
      <<"k", "u", "b", "e", "r", "n", "e", "t", "e", "s">>, <<"k", "8", "s">>, <<"c", "i">>, <<"c", "d">>, <<"g", "i", "t">>, <<"g", "i", "t", "h", "u", "b">>,
      <<"v", "s", "c", "o", "d", "e">>, <<"i", "d", "e">>, <<"c", "l", "i">>, <<"s", "d", "k">>, <<"n", "p", "m">>, <<"p", "i", "p">>, <<"c", "o", "n", "d", "a">>,
      <<"v", "e", "n", "v">>, <<"p", "y", "t", "h", "o", "n">>, <<"j", "a", "v", "a", "s", "c", "r", "i", "p", "t">>, <<"t", "y", "p", "e", "s", "c", "r", "i", "p", "t">>, <<"r", "e", "a", "c", "t">>,
      <<"v", "u", "e">>, <<"a", "n", "g", "u", "l", "a", "r">>, <<"n", "o", "d", "e">>, <<"e", "x", "p", "r", "e", "s", "s">>, <<"f", "a", "s", "t", "a", "p", "i">>, <<"d", "j", "a", "n", "g", "o">>,
      <<"f", "l", "a", "s", "k">>, <<"p", "o", "s", "t", "g", "r", "e", "s", "q", "l">>, <<"m", "o", "n", "g", "o", "d", "b">>, <<"r", "e", "d", "i", "s">>, <<"e", "l", "a", "s", "t", "i", "c", "s", "e", "a", "r", "c", "h">>,
      <<"c", "h", "r", "o", "m", "a", "d", "b">>, <<"k", "u", "z", "u">>, <<"l", "l", "m">>, <<"g", "p", "t">>, <<"c", "l", "a", "u", "d", "e">>, <<"o", "p", "e", "n", "a", "i">>,
      <<"a", "n", "t", "h", "r", "o", "p", "i", "c">>, <<"m", "c", "p">>, <<"e", "l", "e", "f", "a", "n", "t", "e">> }

\* re.sub(r"[^\w\s-]", " ", text): every other character becomes a space
sub_non_word(text) ==
    [i \in 1..Len(text) |-> IF text[i] \in LabelChars THEN text[i] ELSE " "]

\* word.strip("-")
RECURSIVE strip_hyphens(_)
strip_hyphens(word) ==
    IF word = <<>> THEN word
    ELSE IF Head(word) = "-" THEN strip_hyphens(Tail(word))
    ELSE IF word[Len(word)] = "-"
    THEN strip_hyphens(SubSeq(word, 1, Len(word) - 1))
    ELSE word

\* the loop of extract_concepts from word i (counted from 0) on: the words
\* in the order they were first scored, and the scores
RECURSIVE score_words(_, _, _, _)
score_words(words, i, order, word_scores) ==
    IF i >= Len(words) THEN [order |-> order, word_scores |-> word_scores]
    ELSE LET raw == words[i + 1]
             word == strip_hyphens(raw)
         IN IF Len(raw) < 3 \/ raw \in STOP_WORDS \/ word = <<>>
            THEN score_words(words, i + 1, order, word_scores)
            ELSE LET old == IF word \in DOMAIN word_scores
                            THEN word_scores[word] ELSE 0
                     gain == 20 * Len(words)
                             + (6 * Len(words) - 3 * i)
                             + (IF word \in TECH_TERMS
                                THEN 40 * Len(words) ELSE 0)
                 IN score_words(words, i + 1,
                        IF word \in DOMAIN word_scores THEN order
                        ELSE Append(order, word),
                        [w \in DOMAIN word_scores \cup {word} |->
                            IF w = word THEN old + gain ELSE word_scores[w]])

\* sorted(word_scores.items(), key=lambda x: -x[1]): a stable sort
RECURSIVE sort_by_score(_, _)
sort_by_score(order, word_scores) ==
    IF order = <<>> THEN <<>>
    ELSE LET i == CHOOSE k \in 1..Len(order) :
                    /\ \A j \in 1..Len(order) :
                          word_scores[order[j]] <= word_scores[order[k]]
                    /\ \A j \in 1..(k - 1) :
                          word_scores[order[j]] < word_scores[order[k]]
         IN <<order[i]>> \o sort_by_score(RemoveAt(order, i), word_scores)

\* extract_concepts (the content holds no code block)
extract_concepts(content, max_concepts) ==
    IF content = <<>> THEN <<>>
    ELSE LET words == str_split(sub_non_word(str_lower(content)))
         IN IF words = <<>> THEN <<>>
            ELSE LET r == score_words(words, 0, <<>>, EmptyMap)
                 IN Take(sort_by_score(r.order, r.word_scores), max_concepts)

ContainsAny(text, parts) == \E t \in parts : str_contains(text, t)

\* the f-strings of infer_surfaces_when for the first two concepts
RECURSIVE ForConcepts(_, _, _)
ForConcepts(concepts, before, after) ==
    IF concepts = <<>> THEN <<>>
    ELSE << before[1] \o Head(concepts) \o after[1],
            before[2] \o Head(concepts) \o after[2] >>
         \o ForConcepts(Tail(concepts), before, after)

RECURSIVE SelectContained(_, _)
SelectContained(patterns, text) ==
    IF patterns = <<>> THEN <<>>
    ELSE (IF str_contains(text, Head(patterns)) THEN <<Head(patterns)>>
          ELSE <<>>) \o SelectContained(Tail(patterns), text)

\* lines 297-303: the first occurrence of each pattern
RECURSIVE unique(_, _)
unique(surfaces_list, seen) ==
    IF surfaces_list = <<>> THEN <<>>
    ELSE IF Head(surfaces_list) \in seen
    THEN unique(Tail(surfaces_list), seen)
    ELSE <<Head(surfaces_list)>>
         \o unique(Tail(surfaces_list), seen \cup {Head(surfaces_list)})

\* infer_surfaces_when
infer_surfaces_when(content, concepts) ==
    LET lower == str_lower(content)
        question ==
            IF ContainsAny(lower, {<<"h", "o", "w", " ", "t", "o">>, <<"w", "h", "y">>, <<"w", "h", "a", "t", " ", "i", "s">>,
                                   <<"w", "h", "e", "n", " ", "t", "o">>})
            THEN SelectContained(<<<<"h", "o", "w", " ", "t", "o">>, <<"w", "h", "y", " ", "d", "o">>, <<"w", "h", "y", " ", "i", "s">>,
                                   <<"w", "h", "a", "t", " ", "i", "s">>, <<"w", "h", "e", "n", " ", "t", "o">>, <<"w", "h", "e", "r", "e", " ", "t", "o">>>>,
                                 lower)
            ELSE <<>>
        problem ==
            IF ContainsAny(lower, {<<"e", "r", "r", "o", "r">>, <<"f", "a", "i", "l">>, <<"i", "s", "s", "u", "e">>,
                                   <<"p", "r", "o", "b", "l", "e", "m">>, <<"b", "u", "g">>, <<"f", "i", "x">>})
            THEN ForConcepts(Take(concepts, 2), <<<<>>, <<>>>>,
                             <<<<" ", "e", "r", "r", "o", "r">>, <<" ", "p", "r", "o", "b", "l", "e", "m">>>>)
            ELSE <<>>
        combination ==
            IF Len(concepts) >= 2
            THEN <<concepts[1] \o <<" ">> \o concepts[2]>> ELSE <<>>
        action ==
            IF ContainsAny(lower, {<<"a", "l", "w", "a", "y", "s">>, <<"n", "e", "v", "e", "r">>, <<"m", "u", "s", "t">>,
                                   <<"s", "h", "o", "u", "l", "d">>, <<"u", "s", "e">>, <<"a", "v", "o", "i", "d">>})
            THEN ForConcepts(Take(concepts, 2), <<<<>>, <<"h", "o", "w", " ", "t", "o", " ">>>>,
                             <<<<" ", "b", "e", "s", "t", " ", "p", "r", "a", "c", "t", "i", "c", "e">>, <<>>>>)
            ELSE <<>>
        setup ==
            IF ContainsAny(lower, {<<"c", "o", "n", "f", "i", "g">>, <<"s", "e", "t", "u", "p">>, <<"i", "n", "s", "t", "a", "l", "l">>,
                                   <<"c", "o", "n", "f", "i", "g", "u", "r", "e">>})
            THEN ForConcepts(Take(concepts, 2), <<<<>>, <<>>>>,
                             <<<<" ", "s", "e", "t", "u", "p">>, <<" ", "c", "o", "n", "f", "i", "g", "u", "r", "a", "t", "i", "o", "n">>>>)
            ELSE <<>>
    IN Take(unique(question \o problem \o combination \o action \o setup, {}),
            8)

\* number of words of a generated content
MaxCurationWords == 3
CurationWords ==
    { <<"N", "E", "V", "E", "R">>, <<"s", "e", "c", "r", "e", "t", "s">>, <<"d", "o", "c", "k", "e", "r">>, <<"e", "r", "r", "o", "r">>, <<"c", "o", "n", "f", "i", "g">>, <<"h", "o", "w">>,
      <<"t", "o">> }
NeverCommitSecrets == <<"N", "E", "V", "E", "R", " ", "c", "o", "m", "m", "i", "t", " ", "s", "e", "c", "r", "e", "t", "s", " ", "t", "o", " ", "t", "h", "e", " ", "r", "e", "p", "o", "s", "i", "t", "o", "r", "y">>

CurateInit ==
    /\ \/ cu_content = NeverCommitSecrets
       \/ \E n \in 0..MaxCurationWords :
             \E ws \in [1..n -> CurationWords] : cu_content = str_join(ws)
    /\ cu_concepts = <<>>
    /\ cu_surfaces = <<>>
    /\ cu_stage = "content"

\* concepts = extract_concepts(content, max_concepts=5)
ExtractConcepts ==
    /\ cu_stage = "content"
    /\ cu_concepts' = extract_concepts(cu_content, DefaultMaxConcepts)
    /\ cu_stage' = "concepts"
    /\ UNCHANGED <<cu_content, cu_surfaces>>
    /\ UNCHANGED curateFrame

\* surfaces_when = infer_surfaces_when(content, concepts)
InferSurfacesWhen ==
    /\ cu_stage = "concepts"
    /\ cu_surfaces' = infer_surfaces_when(cu_content, cu_concepts)
    /\ cu_stage' = "surfaces"
    /\ UNCHANGED <<cu_content, cu_concepts>>
    /\ UNCHANGED curateFrame

CurateNext == ExtractConcepts \/ InferSurfacesWhen
InitCurate == CoreIdle /\ LaterIdle /\ CurateInit /\ CurateOthersIdle
SpecCurate == InitCurate /\ [][CurateNext]_vars

(***************************************************************************)
(* Claims about curation                                                   *)
(***************************************************************************)
\* C25 (curation of an imperative rule): for 'NEVER commit secrets to the
\* repository' the concepts (at most 5, no stop-words) include secrets and
\* repository and some pattern of infer_surfaces_when contains the word
\* secrets; infer_surfaces_when returns at most 8 patterns, no two equal.
C25_CurationOfRule ==
    cu_stage = "surfaces" =>
        /\ Len(cu_concepts) <= 5
        /\ \A i \in 1..Len(cu_concepts) : cu_concepts[i] \notin STOP_WORDS
        /\ Len(cu_surfaces) <= 8
        /\ \A i, j \in 1..Len(cu_surfaces) :
              i # j => cu_surfaces[i] # cu_surfaces[j]
        /\ cu_content = NeverCommitSecrets =>
              /\ <<"s", "e", "c", "r", "e", "t", "s">> \in Elems(cu_concepts)
              /\ <<"r", "e", "p", "o", "s", "i", "t", "o", "r", "y">> \in Elems(cu_concepts)
              /\ \E i \in 1..Len(cu_surfaces) :
                    <<"s", "e", "c", "r", "e", "t", "s">> \in Elems(str_split(cu_surfaces[i]))

(***************************************************************************)
(* canonicalize_concepts on two lists of labels                            *)
(* (src/src/utils/curation.py, src/tests/test_v4_concept_overlap.py)       *)
(***************************************************************************)
\* number of labels in each list
MaxFormLabels == 2
FormSamples ==
    { <<"V", "e", "c", "t", "o", "r", " ", "D", "B">>, <<"v", "e", "c", "t", "o", "r", " ", " ", "d", "b">>, <<"v", "e", "c", "t", "o", "r", "-", "d", "b">>, <<"R", ">", "D", ">", "T">>,
      <<"r", " ", ">", " ", "d", " ", ">", " ", "t">>, <<"C", "a", "f", "e-acute">>, <<"c", "a", "f", "e">>, <<"a", "t">>,
      <<"C", "+", "+">> }

\* the words of a text: the runs of the kept characters after casefolding
\* and accent stripping
RECURSIVE RunsOf(_, _, _)
RunsOf(text, kept, run) ==
    IF text = <<>> THEN (IF run = <<>> THEN <<>> ELSE <<run>>)
    ELSE IF Head(text) \in kept
    THEN RunsOf(Tail(text), kept, Append(run, Head(text)))
    ELSE (IF run = <<>> THEN <<>> ELSE <<run>>) \o RunsOf(Tail(text), kept, <<>>)

Alphanumerics == Elems(LowerCase) \cup Digits
\* the letters and digits of a label, word by word: what is left when case,
\* accents, punctuation and spacing are set aside
AlnumWords(text) == RunsOf(str_lower(strip_accents(text)), Alphanumerics, <<>>)
\* the same with '_' and '-' counted as parts of words
DashWords(text) ==
    RunsOf(str_lower(strip_accents(text)), Alphanumerics \cup {"_", "-"}, <<>>)

SameAlnumWords(a, b) ==
    /\ Len(a) = Len(b)
    /\ \A i \in 1..Len(a) : AlnumWords(a[i]) = AlnumWords(b[i])
SameDashWords(a, b) ==
    /\ Len(a) = Len(b)
    /\ \A i \in 1..Len(a) : DashWords(a[i]) = DashWords(b[i])

FormInit ==
    /\ \E n \in 0..MaxFormLabels :
          /\ cf_first \in [1..n -> FormSamples]
          /\ cf_second \in [1..n -> FormSamples]
    /\ SameAlnumWords(cf_first, cf_second)
    /\ cf_max \in {1, DefaultMaxConcepts}
    /\ cf_out_first = <<>>
    /\ cf_out_second = <<>>
    /\ cf_done = FALSE

\* canonicalize_concepts(first) and canonicalize_concepts(second)
CanonicalizeBoth ==
    /\ ~cf_done
    /\ cf_out_first' =
          canonicalize_concepts(cf_first, DEFAULT_CONCEPT_ALIASES, cf_max)
    /\ cf_out_second' =
          canonicalize_concepts(cf_second, DEFAULT_CONCEPT_ALIASES, cf_max)
    /\ cf_done' = TRUE
    /\ UNCHANGED <<cf_first, cf_second, cf_max>>
    /\ UNCHANGED formFrame

FormNext == CanonicalizeBoth
InitForm == CoreIdle /\ LaterIdle /\ FormInit /\ FormOthersIdle
SpecForm == InitForm /\ [][FormNext]_vars

(***************************************************************************)
(* Claims about the canonical form                                         *)
(***************************************************************************)
\* the canonical label a raw label stands for
CanonLabel(raw) == str_join(DashWords(raw))
FirstIndex(input, label) ==
    CHOOSE i \in 1..Len(input) :
        /\ CanonLabel(input[i]) = label
        /\ \A j \in 1..(i - 1) : CanonLabel(input[j]) # label

\* at most cf_max labels, none twice, none a stop-word or shorter than 2,
\* only a-z, 0-9, '_', '-' and single interior spaces, in input order
CanonicalForm(input, out) ==
    /\ Len(out) <= cf_max
    /\ \A k, l \in 1..Len(out) : k # l => out[k] # out[l]
    /\ \A k \in 1..Len(out) :
          LET label == out[k]
          IN /\ label \notin STOP_WORDS
             /\ Len(label) >= 2
             /\ \A i \in 1..Len(label) :
                   label[i] \in Alphanumerics \cup {"_", "-", " "}
             /\ label[1] # " " /\ label[Len(label)] # " "
             /\ \A i \in 1..(Len(label) - 1) :
                   ~(label[i] = " " /\ label[i + 1] = " ")
             /\ \E i \in 1..Len(input) : CanonLabel(input[i]) = label
    /\ \A k \in 1..(Len(out) - 1) :
          FirstIndex(input, out[k]) < FirstIndex(input, out[k + 1])

EmptyBody == [kind |-> "empty", pid |-> 0]
TextBody == [kind |-> "text", pid |-> 0]
PidBody(pid) == [kind |-> "pid", pid |-> pid]

\* pid 1: a process of another user; pid 2: a process of the caller;
\* pid 3: no such process
ProcessTable == (1 :> "other") @@ (2 :> "own") @@ (3 :> "none")

\* os.kill(pid, 0): returns, or raises the named exception
os_kill_0(pid) ==
    CASE ProcessTable[pid] = "own" -> "ok"
      [] ProcessTable[pid] = "other" -> "PermissionError"
      [] OTHER -> "ProcessLookupError"

\* lines 62-79: whether the loop body unlinks the file
unlinks(body) ==
    IF body.kind = "empty" THEN TRUE
    ELSE LET raised == IF body.kind = "text" THEN "ValueError"
                       ELSE os_kill_0(body.pid)
         IN raised \in {"ValueError", "ProcessLookupError", "PermissionError"}

\* clean_locks: the set of files unlinked
clean_locks(dir_exists, files) ==
    IF ~dir_exists THEN {}
    ELSE IF files = <<>> THEN {}
    ELSE {i \in 1..Len(files) : unlinks(files[i])}

\* number of lock files in the directory
MaxLocks == 3
BodySamples == {EmptyBody, TextBody, PidBody(1), PidBody(2), PidBody(3)}

LockInit ==
    /\ lock_dir_exists \in BOOLEAN
    /\ \E n \in 0..MaxLocks : lock_files \in [1..n -> BodySamples]
    /\ lock_dir_exists = FALSE => lock_files = <<>>
    /\ unlinked = {}
    /\ cleaned = FALSE

CleanLocks ==
    /\ ~cleaned
    /\ unlinked' = clean_locks(lock_dir_exists, lock_files)
    /\ cleaned' = TRUE
    /\ UNCHANGED <<lock_dir_exists, lock_files>>
    /\ UNCHANGED lockFrame

LockNext == CleanLocks
InitLock == CoreIdle /\ LaterIdle /\ LockInit /\ LockOthersIdle
SpecLock == InitLock /\ [][LockNext]_vars

(***************************************************************************)
(* Claims about lock cleanup                                               *)
(***************************************************************************)
Running(pid) == ProcessTable[pid] \in {"own", "other"}
\* stale: the body is empty, or names no pid of a running process
Stale(body) ==
    \/ body.kind = "empty"
    \/ body.kind = "text"
    \/ body.kind = "pid" /\ ~Running(body.pid)

\* C27 (stale-lock cleanup): clean_locks removes a lock file exactly when it
\* is stale; a lock whose owning pid is alive is never removed, whoever owns
\* that process.
C27_StaleLockCleanup ==
    cleaned =>
        \A i \in 1..Len(lock_files) :
            /\ i \in unlinked <=> Stale(lock_files[i])
            /\ (lock_files[i].kind = "pid" /\ Running(lock_files[i].pid))
                  => i \notin unlinked

(***************************************************************************)
(* GraphStore._initialize_connection (src/src/core/graph_store.py)         *)
(* The database path is absent, a file of some size, or a directory with   *)
(* some number of entries.                                                 *)
(***************************************************************************)
AbsentPath == [kind |-> "absent", size |-> 0]
FilePath(size) == [kind |-> "file", size |-> size]
DirPath(size) == [kind |-> "dir", size |-> size]

\* size of a file, number of entries of a directory
MaxPathSize == 2
PathSamples ==
    {AbsentPath} \cup {FilePath(n) : n \in 0..MaxPathSize}
                 \cup {DirPath(n) : n \in 0..MaxPathSize}
\* number of calls of _initialize_connection and close
MaxConnectionCalls == 3

\* a variant that unlinks a file whatever its size
robust_init_any_file(path) ==
    IF path.kind = "file" THEN AbsentPath
    ELSE IF path.kind = "dir" /\ path.size = 0 THEN AbsentPath
    ELSE path

\* lines 107-118: an empty file is unlinked, an empty directory removed
robust_init(path) ==
    IF path.kind # "absent"
    THEN IF path.kind = "file"
         THEN IF path.size = 0 THEN AbsentPath ELSE path
         ELSE IF path.kind = "dir" /\ path.size = 0 THEN AbsentPath
         ELSE path
    ELSE path

\* kuzu.Database(path): the ways the call can end.  An absent path is
\* created as a database (a directory or, from Kuzu 0.11, a file); an
\* existing one is opened as it is; the call can fail with RuntimeError
\* (a locked or unreadable database) and then leaves the path alone.
kuzu_Database(path) ==
    (IF path.kind = "absent"
     THEN {[ok |-> TRUE, path |-> FilePath(1)],
           [ok |-> TRUE, path |-> DirPath(1)]}
     ELSE {[ok |-> TRUE, path |-> path]})
    \cup {[ok |-> FALSE, path |-> path]}

PathInit ==
    /\ db_path \in PathSamples
    /\ db_conn = FALSE
    /\ db_lock = FALSE
    /\ db_schema = FALSE
    /\ db_before = AbsentPath
    /\ db_checked = AbsentPath
    /\ db_outcome = "none"
    /\ db_calls = 0

\* _initialize_connection
InitializeConnection ==
    /\ db_calls < MaxConnectionCalls
    /\ db_calls' = db_calls + 1
    /\ db_before' = db_path
    /\ IF db_conn
       THEN /\ db_outcome' = "returned"
            /\ db_checked' = db_path
            /\ UNCHANGED <<db_path, db_conn, db_lock, db_schema>>
       ELSE /\ db_lock' = TRUE
            /\ \/ /\ db_outcome' = "ImportError"
                  /\ db_checked' = db_path
                  /\ UNCHANGED <<db_path, db_conn, db_schema>>
               \/ /\ db_checked' = robust_init(db_path)
                  /\ \E opened \in kuzu_Database(robust_init(db_path)) :
                        /\ db_path' = opened.path
                        /\ IF opened.ok
                           THEN /\ db_conn' = TRUE
                                /\ db_schema' = TRUE
                                /\ db_outcome' = "connected"
                           ELSE /\ db_outcome' = "RuntimeError"
                                /\ UNCHANGED <<db_conn, db_schema>>
    /\ UNCHANGED pathFrame

\* close
CloseConnection ==
    /\ db_calls < MaxConnectionCalls
    /\ db_calls' = db_calls + 1
    /\ db_conn' = FALSE
    /\ db_outcome' = "closed"
    /\ UNCHANGED <<db_path, db_lock, db_schema, db_before, db_checked>>
    /\ UNCHANGED pathFrame

PathNext == InitializeConnection \/ CloseConnection
InitPath == CoreIdle /\ LaterIdle /\ PathInit /\ PathOthersIdle
SpecPath == InitPath /\ [][PathNext]_vars

(***************************************************************************)
(* Claims about the database path                                          *)
(***************************************************************************)
Initializing == db_outcome' \in {"returned", "ImportError", "connected", "RuntimeError"}

\* C28 (path handling at first connection): the check removes the path only
\* when it is an empty directory or an empty file, and the store then
\* recreates it; a non-empty directory or file is left as it is by the
\* check; a call on a connected store changes nothing.
C28_PathHandling ==
    [][ (db_calls' # db_calls /\ Initializing) =>
          /\ db_checked' # db_before'
                => /\ db_before'.kind \in {"file", "dir"}
                   /\ db_before'.size = 0
                   /\ db_checked' = AbsentPath
          /\ (db_checked' # db_before' /\ db_outcome' = "connected")
                => db_path'.kind # "absent" /\ db_path'.size > 0
          /\ db_before'.size > 0 => db_checked' = db_before'
          /\ db_conn => UNCHANGED <<db_path, db_conn, db_lock, db_schema>>
      ]_vars

C28_Witness ==
    /\ db_before = DirPath(0)
    /\ db_checked = AbsentPath
    /\ db_outcome = "connected"
    /\ db_path.size > 0

(***************************************************************************)
(* GraphStore.create_relationship (src/src/core/graph_store.py)            *)
(***************************************************************************)
\* number of entity ids
MaxRelEntities == 2
\* number of calls of create_relationship
MaxRelCalls == 2
RelEntityIds == 1..MaxRelEntities

\* lines 508-515: the relationship table of a relationship type
rel_type_map ==
    [t \in {"RELATES_TO", "DEPENDS_ON", "REFERENCES", "CREATED_IN"} |-> t]
RelTable(relationship_type) ==
    IF relationship_type \in DOMAIN rel_type_map
    THEN rel_type_map[relationship_type]
    ELSE "RELATES_TO"

\* lines 242-268: the properties of each relationship table
RelTableProperties ==
    [RELATES_TO |-> {"strength"}, DEPENDS_ON |-> {"description"},
     REFERENCES |-> {"reference_type"}, CREATED_IN |-> {}]

Edge(from_id, to_id, table) == [from |-> from_id, to |-> to_id, table |-> table]

\* MATCH (fromNode:Entity), (toNode:Entity) WHERE ... CREATE ...: one edge
\* for every matched pair of rows, none when a row is missing
match_create(nodes, edges, from_id, to_id, table) ==
    edges \cup {Edge(f, t, table) :
                   f \in {n \in nodes : n = from_id},
                   t \in {n \in nodes : n = to_id}}

\* self._conn.execute(query, params): the ways the statement can end.  It
\* can fail (a lost connection; a table without the property strength is
\* rejected by a store that checks properties against the schema).
execute_create(nodes, edges, from_id, to_id, table) ==
    {[ok |-> FALSE, edges |-> edges]}
    \cup (IF "strength" \in RelTableProperties[table]
          THEN {[ok |-> TRUE,
                 edges |-> match_create(nodes, edges, from_id, to_id, table)]}
          ELSE {})

RelInit ==
    /\ rel_entities \in SUBSET RelEntityIds
    /\ rel_edges = {}
    /\ rel_request = <<>>
    /\ rel_result = "none"
    /\ rel_calls = 0

\* create_relationship(relationship)
CreateRelationship ==
    /\ rel_calls < MaxRelCalls
    /\ rel_calls' = rel_calls + 1
    /\ \E from_id \in RelEntityIds, to_id \in RelEntityIds,
          relationship_type \in DOMAIN rel_type_map :
          /\ rel_request' = [from_entity_id |-> from_id,
                             to_entity_id |-> to_id,
                             relationship_type |-> relationship_type]
          /\ \E done \in execute_create(rel_entities, rel_edges, from_id,
                                        to_id, RelTable(relationship_type)) :
                /\ rel_edges' = done.edges
                /\ rel_result' = IF done.ok THEN "returned id" ELSE "raised"
    /\ UNCHANGED rel_entities
    /\ UNCHANGED relFrame

RelNext == CreateRelationship
InitRel == CoreIdle /\ LaterIdle /\ RelInit /\ RelOthersIdle
SpecRel == InitRel /\ [][RelNext]_vars

(***************************************************************************)
(* Claims about create_relationship                                        *)
(***************************************************************************)
\* C29 (success only for an edge that exists): the relationship id is
\* returned only if the store then holds an edge of the requested type
\* between the two entities; with a missing endpoint no id is returned.
C29_SuccessMeansEdge ==
    rel_result = "returned id" =>
        /\ Edge(rel_request.from_entity_id, rel_request.to_entity_id,
                rel_request.relationship_type) \in rel_edges
        /\ rel_request.from_entity_id \in rel_entities
        /\ rel_request.to_entity_id \in rel_entities

(***************************************************************************)
(* TemporalConsolidator (src/src/core/temporal_consolidation.py)           *)
(* Each store is a function from the ids of its rows to their archived     *)
(* flag.  Strengths are in tenths.                                         *)
(***************************************************************************)
\* number of memories
MaxArchiveMemories == 2
\* number of calls of archive_memory and consolidate_weak_memories
MaxArchiveCalls == 2
ArchiveIds == 1..MaxArchiveMemories

weak_threshold == 20
archive_threshold == 10

\* temporal strength of the sample memories: 0.5, 1.5, 2.5, 0.5, ...
SampleStrength(id) == 5 + 10 * ((id - 1) % 3)

\* a store with the row of id, if it has one, marked archived
MarkArchived(store, id) ==
    [m \in DOMAIN store |-> IF m = id THEN TRUE ELSE store[m]]

\* archive_memory(memory): the ways the call can end.  update_memory fails
\* and nothing is written; update_memory succeeds and execute_query fails;
\* both succeed (the SET applies to the rows the MATCH finds).
archive_memory(vector, graph, id) ==
    {[returned |-> FALSE, vector |-> vector, graph |-> graph],
     [returned |-> FALSE, vector |-> MarkArchived(vector, id),
      graph |-> graph],
     [returned |-> TRUE, vector |-> MarkArchived(vector, id),
      graph |-> MarkArchived(graph, id)]}

\* find_weak_memories: the memories of the semantic store below the weak
\* threshold
find_weak_memories(vector) ==
    {id \in DOMAIN vector : SampleStrength(id) < weak_threshold}

\* lines 139-146: the weak memories consolidate_weak_memories archives
to_archive(vector, force) ==
    {id \in find_weak_memories(vector) :
        SampleStrength(id) < archive_threshold \/ force}

NoStats == [scanned |-> 0, weak_found |-> 0, archived |-> 0, errors |-> 0]

ArchiveInit ==
    /\ ar_vector = [id \in ArchiveIds |-> FALSE]
    /\ \E rows \in SUBSET ArchiveIds : ar_graph = [id \in rows |-> FALSE]
    /\ ar_before = <<ar_vector, ar_graph>>
    /\ ar_results = <<>>
    /\ ar_stats = NoStats
    /\ ar_calls = 0

\* archive_memory(memory) called on its own
ArchiveMemory ==
    /\ ar_calls < MaxArchiveCalls
    /\ ar_calls' = ar_calls + 1
    /\ ar_before' = <<ar_vector, ar_graph>>
    /\ \E id \in ArchiveIds :
         \E done \in archive_memory(ar_vector, ar_graph, id) :
            /\ ar_vector' = done.vector
            /\ ar_graph' = done.graph
            /\ ar_results' = (id :> done.returned)
    /\ UNCHANGED ar_stats
    /\ UNCHANGED archiveFrame

\* consolidate_weak_memories(force)
ConsolidateWeakMemories ==
    /\ ar_calls < MaxArchiveCalls
    /\ ar_calls' = ar_calls + 1
    /\ ar_before' = <<ar_vector, ar_graph>>
    /\ \E force \in BOOLEAN :
         LET weak == find_weak_memories(ar_vector)
             chosen == to_archive(ar_vector, force)
         IN \E done \in [chosen -> [returned : BOOLEAN,
                                    vector : [ArchiveIds -> BOOLEAN],
                                    graph : [DOMAIN ar_graph -> BOOLEAN]]] :
               /\ \A id \in chosen :
                     done[id] \in archive_memory(ar_vector, ar_graph, id)
               /\ ar_vector' = [m \in DOMAIN ar_vector |->
                                   IF m \in chosen THEN done[m].vector[m]
                                   ELSE ar_vector[m]]
               /\ ar_graph' = [m \in DOMAIN ar_graph |->
                                  IF m \in chosen THEN done[m].graph[m]
                                  ELSE ar_graph[m]]
               /\ ar_results' = [id \in chosen |-> done[id].returned]
               /\ ar_stats' =
                     [scanned |-> Cardinality(weak),
                      weak_found |-> Cardinality(weak),
                      archived |->
                          Cardinality({id \in chosen : done[id].returned}),
                      errors |->
                          Cardinality({id \in chosen : ~done[id].returned})]
    /\ UNCHANGED archiveFrame

ArchiveNext == ArchiveMemory \/ ConsolidateWeakMemories
InitArchive == CoreIdle /\ LaterIdle /\ ArchiveInit /\ ArchiveOthersIdle
SpecArchive == InitArchive /\ [][ArchiveNext]_vars

(***************************************************************************)
(* Claims about archival                                                   *)
(***************************************************************************)
Flag(store, id) == IF id \in DOMAIN store THEN store[id] ELSE FALSE

\* C30 (archival is all-or-nothing): archive_memory removes no row from
\* either store; where it returned True the memory is marked archived in
\* both stores; where it returned False the memory's archived flag is what
\* it was in both stores.
C30_ArchivalAllOrNothing ==
    ar_calls > 0 =>
        /\ DOMAIN ar_vector = DOMAIN ar_before[1]
        /\ DOMAIN ar_graph = DOMAIN ar_before[2]
        /\ \A id \in DOMAIN ar_results :
              IF ar_results[id]
              THEN /\ id \in DOMAIN ar_vector /\ ar_vector[id]
                   /\ id \in DOMAIN ar_graph /\ ar_graph[id]
              ELSE /\ Flag(ar_vector, id) = Flag(ar_before[1], id)
                   /\ Flag(ar_graph, id) = Flag(ar_before[2], id)

====
